---- MODULE Spec2Model ----
(***************************************************************************)
(* Chain-observation and transaction-funding subsystem of the lightweight  *)
(* wallet: the UTXO lease table (utxoLockManager), the funding engine      *)
(* (WalletAnchor.FundPsbt), the confirmation poller                        *)
(* (confirmationNotifier.monitorConfirmation), the bridge's cached        *)
(* lookups (ChainBridge.CurrentHeight / GetBlockHash over cache), block    *)
(* verification (ChainBridge.VerifyBlock), the epoch poller                *)
(* (epochNotifier.pollLoop) and the bridge's Start and Stop; and, each     *)
(* under a specification of its own, the HTTP client's retry loop and rate *)
(* limiter (Client.doRequest), the signer (WalletAnchor.SignPsbt), key     *)
(* derivation (KeyRing.DeriveNextKey), the fee tiers                       *)
(* (ChainBridge.EstimateFee) and the block-timestamp cache.  Further       *)
(* specifications put two of these side by side: the epoch poller beside   *)
(* the cached lookups, EstimateFee before FundPsbt, two confirmation       *)
(* requests for one transaction, and the bridge under fair scheduling.     *)
(*                                                                         *)
(* The wallet side runs on the clock `now`, counted in units of five       *)
(* minutes; the chain side runs on the clock `clock`, counted in units of  *)
(* thirty seconds.  The wallet is loaded (WalletAnchor.Start has returned) *)
(* and its backend calls (ListUnspent, NewChangeAddress) succeed.          *)
(***************************************************************************)
EXTENDS Integers, Sequences, FiniteSets, TLC

VARIABLES
    now,        \* wallet clock (time.Now() as read by utxoLockManager)
    locks,      \* utxoLockManager.locks : outpoint -> [expiresAt]
    calls,      \* the last two completed lease-table calls, oldest first
    unspent,    \* the wallet's unspent outputs, in listing order
    fpc,        \* position of each FundPsbt caller
    fund,       \* locals of each running FundPsbt call
    result      \* what each FundPsbt call returned

walletVars == <<now, locks, calls, unspent, fpc, fund, result>>

VARIABLES
    tip,        \* the chain service: height served at /blocks/tip/height
    txStatus,   \* the chain service: containing height served at /tx/{txid}, 0 = unconfirmed
    requests,   \* confirmationNotifier.requests : txid -> request
    req,        \* the confirmationRequest objects: txid, numConfs, buffered channels
    cancelled,  \* whether the context passed at registration has been cancelled
    quit,       \* whether confirmationNotifier.quit is closed
    ppc,        \* position of each monitorConfirmation goroutine
    poll        \* locals of each monitorConfirmation goroutine

confVars == <<tip, txStatus, requests, req, cancelled, quit, ppc, poll>>

VARIABLES
    clock,       \* chain-side clock (time.Now() as read by cache)
    fork,        \* the chain service: which branch it serves block hashes from
    height,      \* cache.height
    heightExpiry,\* cache.heightExpiry
    blockHashes, \* cache.blockHashes : height -> [value, expiresAt]
    lpc,         \* position of the caller of the bridge's lookups
    lookup,      \* the lookup in progress: what it asked and what the cache held for it
    lastWrite,   \* per key, when the cache was last written and with what value
    done         \* the lookup that has just returned; forgotten when the next
                 \* one goes to the service or time passes

cacheVars == <<clock, fork, height, heightExpiry, blockHashes, lpc, lookup,
               lastWrite, done>>

VARIABLES
    subscribers, \* epochNotifier.subscribers, in registration order
    sub,         \* the epochSubscriber objects: blockChan and errChan contents
    subCancelled,\* whether the context passed to RegisterEpoch has been cancelled
    delivered,   \* per subscriber, every height ever put on its blockChan
    lastHeight,  \* epochNotifier.lastHeight
    epc,         \* position of the epochNotifier.pollLoop goroutine
    equit,       \* whether epochNotifier.quit is closed
    eticks,      \* ticks the epoch poller has taken
    efetch,      \* what the epoch poller's last fetch returned: height, err
    cloop,       \* position of the confirmationNotifier.pollLoop goroutine
    started,     \* ChainBridge.started
    bquit,       \* whether ChainBridge.quit is closed
    bpc,         \* position of the caller of ChainBridge.Stop
    stops        \* Stop calls that have returned, and the pollers each call found

epochVars == <<subscribers, sub, subCancelled, delivered, lastHeight, epc, equit,
               eticks, efetch>>

bridgeVars == <<cloop, started, bquit, bpc, stops>>

VARIABLES
    tokens,      \* rate.Limiter: tokens in the bucket
    cnow,        \* the client's clock, in token periods (1/RateLimit seconds)
    rpc,         \* position of the caller inside Client.doRequest
    attempt,     \* doRequest: the loop counter
    sent,        \* HTTP attempts the current request has sent
    sleepLeft,   \* token periods left of the time.Sleep in progress
    ctxDone,     \* whether the caller's context has been cancelled
    lastStatus,  \* status of the last response (0: no response, a network error)
    rerr,        \* what doRequest returned
    completed,   \* requests that have returned since the client was created
    firstTry     \* whether each of them succeeded on its first attempt

clientVars == <<tokens, cnow, rpc, attempt, sent, sleepLeft, ctxDone, lastStatus,
                rerr, completed, firstTry>>

VARIABLES
    packet,      \* the psbt.Packet given to SignPsbt: Inputs and UnsignedTx.TxIn
    spc,         \* position of the caller inside WalletAnchor.SignPsbt
    si,          \* SignPsbt: the loop index (counted from 1)
    sret         \* what SignPsbt returned

signVars == <<packet, spc, si, sret>>

VARIABLES
    familyIndexes, \* KeyRing.familyIndexes of the key ring in use
    storeIndexes,  \* the indexes map of the KeyStateStore
    derived,       \* per family, the key locators DeriveNextKey has returned
    krGen          \* how many times a KeyRing has been created over the store

keyVars == <<familyIndexes, storeIndexes, derived, krGen>>

VARIABLES
    fees,        \* the service's /v1/fees/recommended
    feeDone      \* the EstimateFee call that has just returned

feeVars == <<fees, feeDone>>

VARIABLES
    blockTimestamps \* cache.blockTimestamps : height -> [value, expiresAt]

componentVars == <<clientVars, signVars, keyVars, feeVars, blockTimestamps>>

coreVars == <<walletVars, confVars, cacheVars, epochVars, bridgeVars>>

vars == <<walletVars, confVars, cacheVars, epochVars, bridgeVars, componentVars>>

----------------------------------------------------------------------------
(* Bounds of the model *)

MaxTime == 2           \* the wallet clock stops here
MaxDuration == 2       \* lease durations passed to LockUTXO directly: 0..MaxDuration

(* Program constants *)

LeaseDuration == 2     \* 10*time.Minute, in five-minute units
DustLimit == 546       \* btcutil.Amount(546)
InputSize == 180       \* bytes per input of the size estimate
OutputSize == 34       \* bytes per output of the size estimate
TxOverhead == 10       \* fixed bytes of the size estimate

MaxTicks == 3          \* ticks a confirmation poller is followed for

Txids == {"X"}
ReqIds == {1, 2}
Heights == {98, 100, 103, 104}     \* tip heights the service may report
TxHeights == {98, 100}             \* containing heights the service may report
NumConfs == {1, 6}
NoRequest == [txid |-> "", numConfs |-> 0, confChan |-> <<>>, reOrgChan |-> <<>>,
              errChan |-> <<>>]
NoPoll == [lastBlockHeight |-> 0, txBlockHeight |-> 0, txHeight |-> 0,
           currentHeight |-> 0, ticks |-> 0, seen |-> <<>>]

MaxClock == 3          \* the chain-side clock stops here
HashCacheSize == 1     \* capacity of cache.blockHashes (100 in the program)
TimestampCacheSize == 1 \* capacity of cache.blockTimestamps (1000 in the program)
CacheTTL == 2          \* 60*time.Second, in thirty-second units
HashSize == 2          \* bytes of a block hash (chainhash.HashSize, 32 in the program)

ChainTips == {0, 100}              \* tip heights served to the bridge
BlockHeights == 0..HashCacheSize           \* heights whose hash is looked up
CacheKeys == 0..(TimestampCacheSize + 1)   \* heights whose timestamp is looked up
Forks == {1, 2}
NoWrite == [at |-> -1, value |-> <<>>]
NoLookup == [op |-> "none", h |-> 0, fresh |-> FALSE, stale |-> FALSE, cached |-> <<>>]
NoDone == [op |-> "none", h |-> 0, fresh |-> FALSE, stale |-> FALSE, cached |-> <<>>,
           calls |-> 0, ret |-> <<>>, err |-> "nil"]

MaxEpochTicks == 3     \* ticks the epoch poller is followed for
BlockChanSize == 2     \* capacity of a subscriber's blockChan (10 in the program)
ErrChanSize == 1       \* capacity of a subscriber's errChan

SubIds == {1, 2}
NoSubscriber == [blockChan |-> <<>>, errChan |-> <<>>]
NoStops == [returned |-> 0, found |-> {}, subs |-> {}]

RetryAttempts == 3     \* Config.RetryAttempts (DefaultConfig)
RateLimit == 2         \* Config.RateLimit, requests per second (TestClient_RateLimiting)
RetryDelay == 1        \* Config.RetryDelay, in token periods
MaxClientTime == 12    \* the client's clock stops here
MaxRequests == 3       \* requests one client is followed for

\* What one HTTP attempt can come back with: 0 stands for no response at all
\* (c.httpClient.Do returned an error), the rest are status codes.
Responses == {0, 200, 400, 404, 429, 500, 503}

MaxInputs == 2         \* inputs of a packet given to SignPsbt: 0..MaxInputs
MaxKeys == 3           \* keys derived per family
MaxKeyRings == 2       \* key rings created over the store after the first

Families == {0, 9}                 \* keychain.KeyFamily values
NoSign == [inputs |-> <<>>, txIn |-> <<>>, loaded |-> TRUE]
NoFee == [op |-> "none", confTarget |-> 0, rate |-> 0, err |-> "nil"]

Outpoints == {"a", "b", "c"}
Callers == {1, 2}

ErrNil == "nil"
ErrUTXOLocked == "ErrUTXOLocked"
ErrUTXONotLocked == "ErrUTXONotLocked"
ErrInsufficientFunds == "ErrInsufficientFunds"

----------------------------------------------------------------------------
(* Helpers *)

RECURSIVE SumSeq(_)
SumSeq(s) == IF s = <<>> THEN 0 ELSE Head(s) + SumSeq(Tail(s))

\* Go's integer division truncates toward zero.
GoDiv(a, b) == IF a >= 0 THEN a \div b ELSE -((-a) \div b)

Range(s) == {s[i] : i \in 1..Len(s)}

\* The last two completed calls, after c has completed.
Remember(h, c) == IF Len(h) < 2 THEN Append(h, c) ELSE <<h[2], c>>

----------------------------------------------------------------------------
(* utxoLockManager *)

\* a lease that is never written: a bug the claims must notice
PutLockNothing(l, o, e) == l

\* map assignment m.locks[outpoint] = utxoLock{expiresAt: e}
PutLock(l, o, e) ==
    [x \in (DOMAIN l) \cup {o} |-> IF x = o THEN [expiresAt |-> e] ELSE l[x]]

\* delete(m.locks, outpoint)
DeleteLock(l, o) == [x \in (DOMAIN l) \ {o} |-> l[x]]

\* LockUTXO without the expiry check: a bug that would grant a held lease again
LockUTXONoCheck(l, o, d, t) ==
    [err |-> ErrNil, locks |-> PutLock(l, o, t + d)]

\* LockUTXO(outpoint, duration) at time t: the error returned and the table left
LockUTXO(l, o, d, t) ==
    IF o \in DOMAIN l /\ t < l[o].expiresAt
    THEN [err |-> ErrUTXOLocked, locks |-> l]
    ELSE [err |-> ErrNil, locks |-> PutLock(l, o, t + d)]

\* UnlockUTXO that refuses an expired entry: a bug the claims must notice
UnlockUTXOLive(l, o, t) ==
    IF o \notin DOMAIN l \/ ~(t < l[o].expiresAt)
    THEN [err |-> ErrUTXONotLocked, locks |-> l]
    ELSE [err |-> ErrNil, locks |-> DeleteLock(l, o)]

\* UnlockUTXO(outpoint) at time t (the code never reads the clock)
UnlockUTXO(l, o, t) ==
    IF o \notin DOMAIN l
    THEN [err |-> ErrUTXONotLocked, locks |-> l]
    ELSE [err |-> ErrNil, locks |-> DeleteLock(l, o)]

\* IsLocked that ignores the expiry: a bug the claims must notice
IsLockedNoExpiry(l, o, t) == o \in DOMAIN l

\* IsLocked(outpoint) at time t
IsLocked(l, o, t) ==
    IF o \notin DOMAIN l THEN FALSE ELSE t < l[o].expiresAt

\* CleanupExpired() at time t: now.After(lock.expiresAt)
CleanupExpired(l, t) ==
    [x \in {y \in DOMAIN l : ~(t > l[y].expiresAt)} |-> l[x]]

\* GetLocked() at time t: the outpoints whose lease is unexpired
GetLocked(l, t) == {x \in DOMAIN l : t < l[x].expiresAt}

----------------------------------------------------------------------------
(* Direct calls on the lease table.  Every method holds m.mu for its whole  *)
(* body, so a call is one step; concurrent callers are serialised in some   *)
(* order.  A completed call is remembered with what it returned and with    *)
(* whether the outpoint was free (no entry, or an entry at or past its      *)
(* expiry) when the call ran.                                               *)

Free(o) == ~(o \in DOMAIN locks /\ now < locks[o].expiresAt)

Call(op, p, o, d, ret) ==
    [op |-> op, by |-> p, o |-> o, d |-> d, ret |-> ret, at |-> now,
     free |-> Free(o)]

CallLockUTXO(p, o, d) ==
    LET r == LockUTXO(locks, o, d, now) IN
    /\ locks' = r.locks
    /\ calls' = Remember(calls, Call("LockUTXO", p, o, d, r.err))
    /\ UNCHANGED <<now, unspent, fpc, fund, result, confVars, cacheVars, epochVars, bridgeVars, componentVars>>

CallUnlockUTXO(p, o) ==
    LET r == UnlockUTXO(locks, o, now) IN
    /\ locks' = r.locks
    /\ calls' = Remember(calls, Call("UnlockUTXO", p, o, 0, r.err))
    /\ UNCHANGED <<now, unspent, fpc, fund, result, confVars, cacheVars, epochVars, bridgeVars, componentVars>>

CallIsLocked(p, o) ==
    /\ calls' = Remember(calls, Call("IsLocked", p, o, 0, IsLocked(locks, o, now)))
    /\ UNCHANGED <<now, locks, unspent, fpc, fund, result, confVars, cacheVars, epochVars, bridgeVars, componentVars>>

CallCleanupExpired ==
    /\ locks' = CleanupExpired(locks, now)
    /\ locks' # locks
    /\ UNCHANGED <<now, calls, unspent, fpc, fund, result, confVars, cacheVars, epochVars, bridgeVars, componentVars>>

\* The wallet clock advances.
Tick ==
    /\ now < MaxTime
    /\ now' = now + 1
    /\ UNCHANGED <<locks, calls, unspent, fpc, fund, result, confVars, cacheVars, epochVars, bridgeVars, componentVars>>

----------------------------------------------------------------------------
(* The wallet's unspent outputs, as ListUnspent reports them. *)

Utxo(o, a, c) == [op |-> o, amount |-> a, confs |-> c]

Wallets ==
    { << Utxo("a", 1590, 6), Utxo("b", 600, 1), Utxo("c", 1000, 3) >>,
      << Utxo("a", 1591, 6), Utxo("b", 600, 1), Utxo("c", 1000, 3) >> }

NoFund ==
    [outs |-> <<>>, nIn |-> 0, required |-> 0, fee |-> 0, list |-> <<>>,
     i |-> 0, selected |-> <<>>, totalInput |-> 0, skipped |-> {}, feeRate |-> 0]

NoResult == [err |-> "none"]

\* The chain side before any registration.
ConfIdle ==
    /\ tip = 100
    /\ txStatus = [x \in Txids |-> 0]
    /\ requests = << >>
    /\ req = [r \in ReqIds |-> NoRequest]
    /\ cancelled = [r \in ReqIds |-> FALSE]
    /\ quit = FALSE
    /\ ppc = [r \in ReqIds |-> "none"]
    /\ poll = [r \in ReqIds |-> NoPoll]

\* newCache: zero height, zero expiry, empty map.
CacheIdle ==
    /\ clock = 0
    /\ fork = 1
    /\ height = 0
    /\ heightExpiry = -1
    /\ blockHashes = << >>
    /\ lpc = "idle"
    /\ lookup = NoLookup
    /\ lastWrite = [height |-> [at |-> -1, value |-> 0], hash |-> [h \in CacheKeys |-> NoWrite]]
    /\ done = NoDone

\* newEpochNotifier: no subscriber, lastHeight 0, quit open, pollLoop not started.
EpochIdle ==
    /\ subscribers = << >>
    /\ sub = [s \in SubIds |-> NoSubscriber]
    /\ subCancelled = [s \in SubIds |-> FALSE]
    /\ delivered = [s \in SubIds |-> << >>]
    /\ lastHeight = 0
    /\ epc = "none"
    /\ equit = FALSE
    /\ eticks = 0
    /\ efetch = [height |-> 0, err |-> FALSE]

\* NewChainBridge: not started, quit open.
BridgeIdle ==
    /\ cloop = "none"
    /\ started = FALSE
    /\ bquit = FALSE
    /\ bpc = "idle"
    /\ stops = NoStops

\* NewClient: a full bucket (rate.NewLimiter(limit, burst) starts with burst
\* tokens) and no request in progress.
ClientIdle ==
    /\ tokens = RateLimit
    /\ cnow = 0
    /\ rpc = "idle"
    /\ attempt = 0
    /\ sent = 0
    /\ sleepLeft = 0
    /\ ctxDone = FALSE
    /\ lastStatus = 0
    /\ rerr = "none"
    /\ completed = 0
    /\ firstTry = TRUE

SignIdle ==
    /\ packet = NoSign
    /\ spc = "idle"
    /\ si = 0
    /\ sret = "none"

\* keyring.New over an empty store: every family starts at index 0.
KeyIdle ==
    /\ familyIndexes = [f \in Families |-> 0]
    /\ storeIndexes = [f \in Families |-> 0]
    /\ derived = [f \in Families |-> <<>>]
    /\ krGen = 0

FeeIdle ==
    /\ fees = [fastestFee |-> 21, halfHourFee |-> 11, hourFee |-> 5,
               economyFee |-> 2, minimumFee |-> 1]
    /\ feeDone = NoFee

ComponentIdle ==
    ClientIdle /\ SignIdle /\ KeyIdle /\ FeeIdle /\ blockTimestamps = << >>

WalletIdle ==
    /\ now = 0
    /\ locks = << >>
    /\ calls = << >>
    /\ unspent = << >>
    /\ fpc = [p \in Callers |-> "idle"]
    /\ fund = [p \in Callers |-> NoFund]
    /\ result = [p \in Callers |-> NoResult]

InitWallet ==
    /\ ConfIdle
    /\ CacheIdle /\ EpochIdle /\ BridgeIdle /\ ComponentIdle
    /\ now = 0
    /\ locks = << >>
    /\ calls = << >>
    /\ unspent \in Wallets
    /\ fpc = [p \in Callers |-> "idle"]
    /\ fund = [p \in Callers |-> NoFund]
    /\ result = [p \in Callers |-> NoResult]

----------------------------------------------------------------------------
(* Specification of the lease table under direct calls *)

LockOutpoints == {"a", "b"}

InitLock == WalletIdle /\ ConfIdle /\ CacheIdle /\ EpochIdle /\ BridgeIdle /\ ComponentIdle

NextLock ==
    \/ \E p \in Callers, o \in LockOutpoints, d \in 1..MaxDuration : CallLockUTXO(p, o, d)
    \/ \E p \in Callers, o \in LockOutpoints : CallUnlockUTXO(p, o)
    \/ \E p \in Callers, o \in LockOutpoints : CallIsLocked(p, o)
    \/ CallCleanupExpired
    \/ Tick

SpecLock == InitLock /\ [][NextLock]_vars

----------------------------------------------------------------------------
(* WalletAnchor.FundPsbt.  The call holds only w.mu.RLock, which concurrent  *)
(* callers share, so two calls interleave at every access to the lease table:*)
(* IsLocked and LockUTXO each take m.mu on their own.                        *)

Templates == { <<>>, <<1000>>, <<1000, 300>>, <<300, 300>>, <<3150>> }   \* packet.UnsignedTx.TxOut values
TemplateInputs == {0, 1}                             \* len(packet.UnsignedTx.TxIn)
FeeRates == {253, 4000}                              \* chainfee.SatPerKWeight
MinConfs == {1, 3}
ChangeIdxs == {-1, 0, 1, 5}

\* estimatedFee of a template with nIn inputs and nOut outputs at feeRate sat/kw
EstimatedFee(nIn, nOut, feeRate) ==
    LET estimatedVSize == nIn * InputSize + nOut * OutputSize + TxOverhead
        feeRateSatPerKB == GoDiv(feeRate * 250, 1000)
    IN  GoDiv(estimatedVSize * feeRateSatPerKB, 1000)

\* w.wallet.ListUnspent(minConfs, 9999999, "")
ListUnspent(minConfs) ==
    SelectSeq(unspent, LAMBDA u : u.confs >= minConfs /\ u.confs <= 9999999)

\* the sufficiency test without the fee: a bug the claims must notice
ShortOfOutputsOnly(totalInput, outputAmount, estimatedFee) ==
    totalInput < outputAmount

\* totalInput < totalRequired
Short(totalInput, outputAmount, estimatedFee) ==
    totalInput < outputAmount + estimatedFee

\* the dust test with >= : a bug the claims must notice
AboveDustInclusive(change) == change >= DustLimit

\* change > btcutil.Amount(546)
AboveDust(change) == change > DustLimit

\* the change output always appended: a bug the claims must notice
InsertChangeAppend(outs, change, changeIdx) ==
    [txOut |-> Append(outs, change), changeOutputIndex |-> Len(outs)]

\* Insert the change output at changeIdx, or append it.
InsertChange(outs, change, changeIdx) ==
    IF changeIdx >= 0 /\ changeIdx <= Len(outs)
    THEN [txOut |-> SubSeq(outs, 1, changeIdx) \o <<change>>
                      \o SubSeq(outs, changeIdx + 1, Len(outs)),
          changeOutputIndex |-> changeIdx]
    ELSE [txOut |-> Append(outs, change),
          changeOutputIndex |-> Len(outs)]

\* What FundPsbt returns once the selection loop has ended.
FundResult(f, changeIdx) ==
    IF Short(f.totalInput, SumSeq(f.outs), f.fee)
    THEN [err |-> ErrInsufficientFunds]
    ELSE LET change == f.totalInput - f.required
             withChange == InsertChange(f.outs, change, changeIdx)
         IN  [err |-> ErrNil,
              nIn |-> f.nIn,
              tmplOut |-> f.outs,
              inputs |-> f.selected,
              txOut |-> IF AboveDust(change) THEN withChange.txOut ELSE f.outs,
              changeOutputIndex |->
                  IF AboveDust(change) THEN withChange.changeOutputIndex ELSE -1,
              chainFees |-> f.fee]

\* continue past a leased output / end of the range loop; the positions
\* passed over are remembered in skipped
NextUtxo(p) ==
    IF fund[p].i < Len(fund[p].list)
    THEN /\ fund' = [fund EXCEPT ![p].skipped = @ \cup {fund[p].i}, ![p].i = @ + 1]
         /\ fpc' = [fpc EXCEPT ![p] = "check"]
    ELSE /\ fund' = [fund EXCEPT ![p].skipped = @ \cup {fund[p].i}]
         /\ fpc' = [fpc EXCEPT ![p] = "finish"]

\* Entry: required amount, fee estimate and the listing.
FundBegin(p, outs, nIn, minConfs, feeRate) ==
    /\ fpc[p] = "idle"
    /\ LET fee == EstimatedFee(nIn, Len(outs), feeRate)
           list == ListUnspent(minConfs)
       IN  /\ fund' = [fund EXCEPT ![p] =
                  [outs |-> outs, nIn |-> nIn, required |-> SumSeq(outs) + fee,
                   fee |-> fee, list |-> list, i |-> 1, selected |-> <<>>,
                   totalInput |-> 0, skipped |-> {}, feeRate |-> feeRate]]
           /\ fpc' = [fpc EXCEPT ![p] = IF list = <<>> THEN "finish" ELSE "check"]
    /\ UNCHANGED <<now, locks, calls, unspent, result, confVars, cacheVars, epochVars, bridgeVars, componentVars>>

\* if w.utxoLocks.IsLocked(outpoint) { continue }
FundCheck(p) ==
    /\ fpc[p] = "check"
    /\ IF IsLocked(locks, fund[p].list[fund[p].i].op, now)
       THEN NextUtxo(p)
       ELSE /\ fpc' = [fpc EXCEPT ![p] = "lock"]
            /\ fund' = fund
    /\ UNCHANGED <<now, locks, calls, unspent, result, confVars, cacheVars, epochVars, bridgeVars, componentVars>>

\* Add the input, lease it (the error of LockUTXO is dropped), test the total.
FundSelect(p) ==
    /\ fpc[p] = "lock"
    /\ LET u == fund[p].list[fund[p].i]
           total == fund[p].totalInput + u.amount
       IN  /\ locks' = LockUTXO(locks, u.op, LeaseDuration, now).locks
           /\ IF total >= fund[p].required
              THEN /\ fund' = [fund EXCEPT ![p].selected = Append(@, u),
                                           ![p].totalInput = total]
                   /\ fpc' = [fpc EXCEPT ![p] = "finish"]
              ELSE IF fund[p].i < Len(fund[p].list)
              THEN /\ fund' = [fund EXCEPT ![p].selected = Append(@, u),
                                           ![p].totalInput = total,
                                           ![p].i = @ + 1]
                   /\ fpc' = [fpc EXCEPT ![p] = "check"]
              ELSE /\ fund' = [fund EXCEPT ![p].selected = Append(@, u),
                                           ![p].totalInput = total]
                   /\ fpc' = [fpc EXCEPT ![p] = "finish"]
    /\ UNCHANGED <<now, calls, unspent, result, confVars, cacheVars, epochVars, bridgeVars, componentVars>>

RECURSIVE DeleteLocks(_, _)
DeleteLocks(l, us) ==
    IF us = <<>> THEN l ELSE DeleteLocks(DeleteLock(l, Head(us).op), Tail(us))

\* a FundPsbt that rolls its leases back when it fails: a behaviour the
\* claims must tell from the program's
FundFinishRollback(p, changeIdx) ==
    /\ fpc[p] = "finish"
    /\ result' = [result EXCEPT ![p] = FundResult(fund[p], changeIdx)]
    /\ fpc' = [fpc EXCEPT ![p] = "done"]
    /\ locks' = IF Short(fund[p].totalInput, SumSeq(fund[p].outs), fund[p].fee)
                THEN DeleteLocks(locks, fund[p].selected)
                ELSE locks
    /\ UNCHANGED <<now, calls, unspent, fund, confVars, cacheVars, epochVars, bridgeVars, componentVars>>

\* After the loop: ErrInsufficientFunds, or inputs, change output and result.
FundFinish(p, changeIdx) ==
    /\ fpc[p] = "finish"
    /\ result' = [result EXCEPT ![p] = FundResult(fund[p], changeIdx)]
    /\ fpc' = [fpc EXCEPT ![p] = "done"]
    /\ UNCHANGED <<now, locks, calls, unspent, fund, confVars, cacheVars, epochVars, bridgeVars, componentVars>>

\* The caller has taken the result; it may call again.
FundReturn(p) ==
    /\ fpc[p] = "done"
    /\ fpc' = [fpc EXCEPT ![p] = "idle"]
    /\ fund' = [fund EXCEPT ![p] = NoFund]
    /\ result' = [result EXCEPT ![p] = NoResult]
    /\ UNCHANGED <<now, locks, calls, unspent, confVars, cacheVars, epochVars, bridgeVars, componentVars>>

\* UnlockInput(outpoint): the error is returned to the caller
UnlockInput(o) ==
    /\ o \in DOMAIN locks
    /\ locks' = UnlockUTXO(locks, o, now).locks
    /\ UNCHANGED <<now, calls, unspent, fpc, fund, result, confVars, cacheVars, epochVars, bridgeVars, componentVars>>

\* One caller at a time, over the full range of arguments.
InitFund == InitWallet

NextFund ==
    \/ \E outs \in Templates, nIn \in TemplateInputs,
          minConfs \in MinConfs, feeRate \in FeeRates :
          FundBegin(1, outs, nIn, minConfs, feeRate)
    \/ FundCheck(1)
    \/ FundSelect(1)
    \/ \E changeIdx \in ChangeIdxs : FundFinish(1, changeIdx)
    \/ FundReturn(1)
    \/ \E o \in Outpoints : UnlockInput(o)
    \/ Tick

SpecFund == InitFund /\ [][NextFund]_vars

\* Two callers inside FundPsbt at once, each funding the same kind of template.
InitFundConc ==
    /\ InitWallet
    /\ unspent = << Utxo("a", 1590, 6), Utxo("b", 600, 1), Utxo("c", 1000, 3) >>

NextFundConc ==
    \/ \E p \in Callers, outs \in {<<1000>>, <<3150>>} :
          FundBegin(p, outs, 0, 1, 4000)
    \/ \E p \in Callers : FundCheck(p)
    \/ \E p \in Callers : FundSelect(p)
    \/ \E p \in Callers : FundFinish(p, -1)
    \/ \E p \in Callers : FundReturn(p)
    \/ \E o \in Outpoints : UnlockInput(o)
    \/ Tick

SpecFundConc == InitFundConc /\ [][NextFundConc]_vars

----------------------------------------------------------------------------
(* confirmationNotifier: one monitorConfirmation goroutine per registered   *)
(* request.  A goroutine suspends at its select, at each of the two network *)
(* calls of a tick and at the send of the confirmation; the service and the *)
(* caller may act in between.                                               *)

\* Conversion of an integer to uint32 (x mod 2^32), kept as its two 16-bit
\* halves.
U32(x) == [hi |-> (x \div 65536) % 65536, lo |-> x % 65536]

\* a >= b on uint32 values
Geq32(a, b) == a.hi > b.hi \/ (a.hi = b.hi /\ a.lo >= b.lo)

\* n.requests[*txid] = req
PutRequest(m, x, r) == [y \in (DOMAIN m) \cup {x} |-> IF y = x THEN r ELSE m[y]]

\* delete(n.requests, *req.txid)
DeleteRequest(m, x) == [y \in (DOMAIN m) \ {x} |-> m[y]]

\* confirmations computed from the recorded containing height, without the
\* inclusive +1: a bug the claims must notice
ConfsExclusive(currentHeight, txBlockHeight) ==
    U32(currentHeight - txBlockHeight)

\* confs := uint32(int64(currentHeight) - txBlockHeight + 1)
Confs(currentHeight, txBlockHeight) ==
    U32(currentHeight - txBlockHeight + 1)

\* RegisterConfirmation: a new request object in slot r, and its goroutine
RegisterConfirmation(r, x, n) ==
    /\ ppc[r] = "none"
    /\ req' = [req EXCEPT ![r] =
                 [txid |-> x, numConfs |-> n, confChan |-> <<>>, reOrgChan |-> <<>>,
                  errChan |-> <<>>]]
    /\ requests' = PutRequest(requests, x, r)
    /\ ppc' = [ppc EXCEPT ![r] = "select"]
    /\ poll' = [poll EXCEPT ![r] = NoPoll]
    /\ UNCHANGED <<tip, txStatus, cancelled, quit, walletVars, cacheVars, epochVars, bridgeVars, componentVars>>

\* The caller cancels the context it registered with.
CancelRequest(r) ==
    /\ ppc[r] \notin {"none", "exited"}
    /\ ~cancelled[r]
    /\ cancelled' = [cancelled EXCEPT ![r] = TRUE]
    /\ UNCHANGED <<tip, txStatus, requests, req, quit, ppc, poll, walletVars, cacheVars, epochVars, bridgeVars, componentVars>>

\* select: case <-ticker.C
PollTick(r) ==
    /\ ppc[r] = "select"
    /\ poll[r].ticks < MaxTicks
    /\ ppc' = [ppc EXCEPT ![r] = "getTx"]
    /\ poll' = [poll EXCEPT ![r].ticks = @ + 1]
    /\ UNCHANGED <<tip, txStatus, requests, req, cancelled, quit, walletVars, cacheVars, epochVars, bridgeVars, componentVars>>

\* the select without its n.quit case: a bug the claims must notice
PollExitOnCancelOnly(r) ==
    /\ ppc[r] = "select"
    /\ cancelled[r]
    /\ ppc' = [ppc EXCEPT ![r] = "exited"]
    /\ UNCHANGED <<tip, txStatus, requests, req, cancelled, quit, poll, walletVars, cacheVars, epochVars, bridgeVars, componentVars>>

\* select: case <-ctx.Done() / case <-n.quit
PollExit(r) ==
    /\ ppc[r] = "select"
    /\ cancelled[r] \/ quit
    /\ ppc' = [ppc EXCEPT ![r] = "exited"]
    /\ UNCHANGED <<tip, txStatus, requests, req, cancelled, quit, poll, walletVars, cacheVars, epochVars, bridgeVars, componentVars>>

\* n.client.GetTransaction returns; ok = FALSE is a failed fetch
PollGetTransaction(r, ok) ==
    /\ ppc[r] = "getTx"
    /\ LET status == txStatus[req[r].txid] IN
       IF cancelled[r] \/ ~ok \/ status = 0
       THEN /\ ppc' = [ppc EXCEPT ![r] = "select"]
            /\ poll' = poll
       ELSE /\ ppc' = [ppc EXCEPT ![r] = "getHeight"]
            /\ poll' = [poll EXCEPT
                 ![r].txHeight = status,
                 ![r].txBlockHeight = IF @ = 0 THEN status ELSE @]
    /\ UNCHANGED <<tip, txStatus, requests, req, cancelled, quit, walletVars, cacheVars, epochVars, bridgeVars, componentVars>>

\* n.client.GetCurrentHeight returns; then the count, the reorg check and the
\* test against numConfs
PollGetCurrentHeight(r, ok) ==
    /\ ppc[r] = "getHeight"
    /\ IF cancelled[r] \/ ~ok
       THEN /\ ppc' = [ppc EXCEPT ![r] = "select"]
            /\ UNCHANGED <<poll, req>>
       ELSE LET confs == Confs(tip, poll[r].txBlockHeight)
                reorg == poll[r].lastBlockHeight > 0
                           /\ poll[r].txBlockHeight # poll[r].lastBlockHeight
            IN  /\ req' = IF reorg /\ Len(req[r].reOrgChan) < 1
                          THEN [req EXCEPT ![r].reOrgChan = Append(@, "reorg")]
                          ELSE req
                /\ poll' = [poll EXCEPT
                     ![r].currentHeight = tip,
                     ![r].lastBlockHeight = poll[r].txBlockHeight,
                     ![r].seen = Append(@, tip)]
                /\ ppc' = [ppc EXCEPT ![r] =
                     IF Geq32(confs, U32(req[r].numConfs)) THEN "deliver" ELSE "select"]
    /\ UNCHANGED <<tip, txStatus, requests, cancelled, quit, walletVars, cacheVars, epochVars, bridgeVars, componentVars>>

\* select: case req.confChan <- confirmation
PollDeliver(r) ==
    /\ ppc[r] = "deliver"
    /\ Len(req[r].confChan) < 1
    /\ req' = [req EXCEPT ![r].confChan =
                 Append(@, [BlockHeight |-> U32(poll[r].txBlockHeight)])]
    /\ ppc' = [ppc EXCEPT ![r] = "cleanup"]
    /\ UNCHANGED <<tip, txStatus, requests, cancelled, quit, poll, walletVars, cacheVars, epochVars, bridgeVars, componentVars>>

\* select: case <-ctx.Done() / case <-n.quit while sending
PollDeliverAbort(r) ==
    /\ ppc[r] = "deliver"
    /\ cancelled[r] \/ quit
    /\ ppc' = [ppc EXCEPT ![r] = "exited"]
    /\ UNCHANGED <<tip, txStatus, requests, req, cancelled, quit, poll, walletVars, cacheVars, epochVars, bridgeVars, componentVars>>

\* delete(n.requests, *req.txid) under n.mu, then return
PollCleanup(r) ==
    /\ ppc[r] = "cleanup"
    /\ requests' = DeleteRequest(requests, req[r].txid)
    /\ ppc' = [ppc EXCEPT ![r] = "exited"]
    /\ UNCHANGED <<tip, txStatus, req, cancelled, quit, poll, walletVars, cacheVars, epochVars, bridgeVars, componentVars>>

\* The chain service moves its tip (a new block, a reorg, another backend).
ServiceTip(h) ==
    /\ h # tip
    /\ tip' = h
    /\ UNCHANGED <<txStatus, requests, req, cancelled, quit, ppc, poll, walletVars, cacheVars, epochVars, bridgeVars, componentVars>>

\* The chain service changes what it reports for a transaction.
ServiceTx(x, st) ==
    /\ st # txStatus[x]
    /\ txStatus' = [txStatus EXCEPT ![x] = st]
    /\ UNCHANGED <<tip, requests, req, cancelled, quit, ppc, poll, walletVars, cacheVars, epochVars, bridgeVars, componentVars>>

InitConf == WalletIdle /\ ConfIdle /\ CacheIdle /\ EpochIdle /\ BridgeIdle /\ ComponentIdle

\* One request, followed tick by tick, against every move of the service.
NextConf ==
    \/ \E r \in {1}, x \in Txids, n \in NumConfs : RegisterConfirmation(r, x, n)
    \/ \E r \in {1} : CancelRequest(r)
    \/ \E r \in {1} : PollTick(r)
    \/ \E r \in {1} : PollExit(r)
    \/ \E r \in {1}, ok \in BOOLEAN : PollGetTransaction(r, ok)
    \/ \E r \in {1}, ok \in BOOLEAN : PollGetCurrentHeight(r, ok)
    \/ \E r \in {1} : PollDeliver(r)
    \/ \E r \in {1} : PollDeliverAbort(r)
    \/ \E r \in {1} : PollCleanup(r)
    \/ \E h \in Heights : ServiceTip(h)
    \/ \E x \in Txids, st \in {0} \cup TxHeights : ServiceTx(x, st)

SpecConf == InitConf /\ [][NextConf]_vars

----------------------------------------------------------------------------
(* Result cache and the bridge's cached lookups *)

Miss(zero) == [value |-> zero, ok |-> FALSE]
Hit(v) == [value |-> v, ok |-> TRUE]

\* cache.getHeight at time t
getHeight(t) ==
    IF t < heightExpiry /\ height > 0 THEN Hit(height) ELSE Miss(0)

\* cache.getBlockHash at time t
getBlockHash(m, h, t) ==
    IF h \notin DOMAIN m THEN Miss(<<>>)
    ELSE IF t > m[h].expiresAt THEN Miss(<<>>)
    ELSE Hit(m[h].value)

PutEntry(m, h, e) == [k \in DOMAIN m \cup {h} |-> IF k = h THEN e ELSE m[k]]
DeleteEntry(m, h) == [k \in DOMAIN m \ {h} |-> m[k]]

\* The keys the eviction scan of setBlockHash can end on: it starts from
\* oldestHeight = 0 and oldestTime = time.Now() and moves to an entry only when
\* that entry expires strictly earlier, so it ends on an entry of earliest
\* expiry among those already expired (whichever the map's iteration order
\* meets first), or stays on 0 when none is expired.
Oldest(m, t) ==
    LET expired == {k \in DOMAIN m : m[k].expiresAt < t}
    IN  IF expired = {} THEN {0}
        ELSE {k \in expired : \A j \in expired : m[k].expiresAt <= m[j].expiresAt}

\* cache.setBlockHash at time t: the maps it can leave behind
setBlockHash(m, h, hash, t) ==
    LET m1 == PutEntry(m, h, [value |-> hash, expiresAt |-> t + CacheTTL])
    IN  IF Cardinality(DOMAIN m1) > HashCacheSize
        THEN {DeleteEntry(m1, k) : k \in Oldest(m1, t)}
        ELSE {m1}

\* cache.cleanup at time t, on the block-hash map
cleanup(m, t) == [k \in {j \in DOMAIN m : ~(t > m[j].expiresAt)} |-> m[k]]

\* What the service serves at /block-height/{h}: a string of hex digits.
ServiceHash(h, f) ==
    [i \in 1..(2 * HashSize) |->
        IF i = 2 THEN f
        ELSE IF i = 2 * HashSize - 1 THEN h \div 16
        ELSE IF i = 2 * HashSize THEN h % 16
        ELSE 0]

\* hex.DecodeString: two digits per byte; an odd number of digits is an error.
HexDecode(str) ==
    IF Len(str) % 2 # 0 THEN [ok |-> FALSE, bytes |-> <<>>]
    ELSE [ok |-> TRUE,
          bytes |-> [i \in 1..(Len(str) \div 2) |-> 16 * str[2 * i - 1] + str[2 * i]]]

\* chainhash.NewHash: the bytes as given, or an error when there are not HashSize of them.
NewHash(bytes) ==
    IF Len(bytes) # HashSize THEN [ok |-> FALSE, hash |-> <<>>]
    ELSE [ok |-> TRUE, hash |-> bytes]

Fresh(w) == w.at >= 0 /\ clock < w.at + CacheTTL
Stale(w) == w.at >= 0 /\ clock > w.at + CacheTTL

Asked(op, h, w) ==
    [op |-> op, h |-> h, fresh |-> Fresh(w), stale |-> Stale(w), cached |-> w.value]
Answered(l, n, ret, err) ==
    [op |-> l.op, h |-> l.h, fresh |-> l.fresh, stale |-> l.stale,
     cached |-> l.cached, calls |-> n, ret |-> ret, err |-> err]

confRest == <<txStatus, requests, req, cancelled, quit, ppc, poll>>

\* ChainBridge.CurrentHeight up to the cache read: a hit returns.
CurrentHeightBegin ==
    /\ lpc = "idle"
    /\ LET l == Asked("CurrentHeight", 0, lastWrite.height)
           r == getHeight(clock)
       IN  IF r.ok
           THEN /\ done' = Answered(l, 0, r.value, ErrNil)
                /\ UNCHANGED <<lpc, lookup>>
           ELSE /\ lpc' = "fetchHeight"
                /\ lookup' = l
                /\ done' = NoDone
    /\ UNCHANGED <<clock, fork, height, heightExpiry, blockHashes, lastWrite,
                   tip, confRest, walletVars, epochVars, bridgeVars, componentVars>>

\* c.cfg.Client.GetCurrentHeight returns; on success the height is cached.
CurrentHeightFetch(ok) ==
    /\ lpc = "fetchHeight"
    /\ lpc' = "idle"
    /\ lookup' = NoLookup
    /\ IF ok
       THEN /\ height' = tip
            /\ heightExpiry' = clock + CacheTTL
            /\ lastWrite' = [lastWrite EXCEPT !.height = [at |-> clock, value |-> tip]]
            /\ done' = Answered(lookup, 1, tip, ErrNil)
       ELSE /\ done' = Answered(lookup, 1, 0, "failed to get current height")
            /\ UNCHANGED <<height, heightExpiry, lastWrite>>
    /\ UNCHANGED <<clock, fork, blockHashes, tip, confRest, walletVars, epochVars, bridgeVars, componentVars>>

\* ChainBridge.GetBlockHash up to the cache read: a hit returns.
GetBlockHashBegin(h) ==
    /\ lpc = "idle"
    /\ LET l == Asked("GetBlockHash", h, lastWrite.hash[h])
           r == getBlockHash(blockHashes, h, clock)
       IN  IF r.ok
           THEN /\ done' = Answered(l, 0, r.value, ErrNil)
                /\ UNCHANGED <<lpc, lookup>>
           ELSE /\ lpc' = "fetchHash"
                /\ lookup' = l
                /\ done' = NoDone
    /\ UNCHANGED <<clock, fork, height, heightExpiry, blockHashes, lastWrite,
                   tip, confRest, walletVars, epochVars, bridgeVars, componentVars>>

\* c.cfg.Client.GetBlockHash returns: an error, or a string that is decoded,
\* turned into a hash and cached.  "short" is a reply one digit short.
GetBlockHashFetch(reply) ==
    /\ lpc = "fetchHash"
    /\ lpc' = "idle"
    /\ lookup' = NoLookup
    /\ LET h == lookup.h
           full == ServiceHash(h, fork)
           hashStr == IF reply = "short" THEN SubSeq(full, 1, Len(full) - 1) ELSE full
           dec == HexDecode(hashStr)
           new == NewHash(dec.bytes)
       IN  IF reply = "err"
           THEN /\ done' = Answered(lookup, 1, <<>>, "failed to get block hash")
                /\ UNCHANGED <<blockHashes, lastWrite>>
           ELSE IF ~dec.ok
           THEN /\ done' = Answered(lookup, 1, <<>>, "failed to decode block hash")
                /\ UNCHANGED <<blockHashes, lastWrite>>
           ELSE IF ~new.ok
           THEN /\ done' = Answered(lookup, 1, <<>>, "failed to create hash")
                /\ UNCHANGED <<blockHashes, lastWrite>>
           ELSE /\ blockHashes' \in setBlockHash(blockHashes, h, new.hash, clock)
                /\ lastWrite' = [lastWrite EXCEPT
                                   !.hash[h] = [at |-> clock, value |-> new.hash]]
                /\ done' = Answered(lookup, 1, new.hash, ErrNil)
    /\ UNCHANGED <<clock, fork, height, heightExpiry, tip, confRest, walletVars, epochVars, bridgeVars, componentVars>>

\* Time passes on the chain side.
ClockTick ==
    /\ clock < MaxClock
    /\ clock' = clock + 1
    /\ done' = NoDone
    /\ UNCHANGED <<fork, height, heightExpiry, blockHashes, lpc, lookup, lastWrite,
                   confVars, walletVars, epochVars, bridgeVars, componentVars>>

\* The chain service switches to the other branch: every height's hash changes.
ServiceReorg(f) ==
    /\ f # fork
    /\ fork' = f
    /\ UNCHANGED <<clock, height, heightExpiry, blockHashes, lpc, lookup, lastWrite,
                   done, confVars, walletVars, epochVars, bridgeVars, componentVars>>

\* hex.EncodeToString: two digits per byte
HexEncode(bytes) ==
    [i \in 1..(2 * Len(bytes)) |->
        IF i % 2 = 1 THEN bytes[(i + 1) \div 2] \div 16 ELSE bytes[i \div 2] % 16]

Reverse(q) == [i \in 1..Len(q) |-> q[Len(q) + 1 - i]]

\* chainhash.Hash.String: the hex digits of the bytes in reverse order
HashString(hash) == HexEncode(Reverse(hash))

\* header.BlockHash() of the block the service has at height h on branch f:
\* the hash whose String() the service serves for that height.
BlockHashAt(h, f) == Reverse(HexDecode(ServiceHash(h, f)).bytes)

\* Headers handed to VerifyBlock, each given by its BlockHash(): the blocks of
\* both branches, and headers hashing to the same bytes in the other order.
Headers ==
    {BlockHashAt(h, f) : h \in BlockHeights, f \in Forks}
        \cup {Reverse(BlockHashAt(h, f)) : h \in BlockHeights, f \in Forks}

\* if !bytes.Equal(hash[:], headerHash[:]) { error } ; return nil
Compare(hash, headerHash) ==
    IF hash # headerHash THEN "block hash mismatch" ELSE ErrNil

\* What c.GetBlockHash makes of the service's reply for height h.
Fetched(h, reply) ==
    LET full == ServiceHash(h, fork)
        hashStr == IF reply = "short" THEN SubSeq(full, 1, Len(full) - 1) ELSE full
        dec == HexDecode(hashStr)
        new == NewHash(dec.bytes)
    IN  IF reply = "err" THEN [err |-> "failed to get block hash", hash |-> <<>>]
        ELSE IF ~dec.ok THEN [err |-> "failed to decode block hash", hash |-> <<>>]
        ELSE IF ~new.ok THEN [err |-> "failed to create hash", hash |-> <<>>]
        ELSE [err |-> ErrNil, hash |-> new.hash]

\* ChainBridge.VerifyBlock up to the cache read inside c.GetBlockHash: on a
\* hit the cached hash is compared with the header's.
VerifyBlockBegin(header, h) ==
    /\ lpc = "idle"
    /\ LET l == Asked("VerifyBlock", h, lastWrite.hash[h]) @@ [header |-> header]
           r == getBlockHash(blockHashes, h, clock)
       IN  IF r.ok
           THEN /\ done' = Answered(l, 0, r.value, ErrNil)
                             @@ [header |-> header,
                                 verdict |-> Compare(r.value, header)]
                /\ UNCHANGED <<lpc, lookup>>
           ELSE /\ lpc' = "verifyFetch"
                /\ lookup' = l
                /\ done' = NoDone
    /\ UNCHANGED <<clock, fork, height, heightExpiry, blockHashes, lastWrite,
                   tip, confRest, walletVars, epochVars, bridgeVars, componentVars>>

\* c.cfg.Client.GetBlockHash returns inside VerifyBlock: a failed lookup is
\* returned as an error, a hash is cached and compared with the header's.
VerifyBlockFetch(reply) ==
    /\ lpc = "verifyFetch"
    /\ lpc' = "idle"
    /\ lookup' = NoLookup
    /\ LET h == lookup.h
           got == Fetched(h, reply)
       IN  IF got.err # ErrNil
           THEN /\ done' = Answered(lookup, 1, <<>>, got.err)
                             @@ [header |-> lookup.header,
                                 verdict |-> "failed to get block hash"]
                /\ UNCHANGED <<blockHashes, lastWrite>>
           ELSE /\ blockHashes' \in setBlockHash(blockHashes, h, got.hash, clock)
                /\ lastWrite' = [lastWrite EXCEPT
                                   !.hash[h] = [at |-> clock, value |-> got.hash]]
                /\ done' = Answered(lookup, 1, got.hash, ErrNil)
                             @@ [header |-> lookup.header,
                                 verdict |-> Compare(got.hash, lookup.header)]
    /\ UNCHANGED <<clock, fork, height, heightExpiry, tip, confRest, walletVars,
                   epochVars, bridgeVars, componentVars>>

InitCache == WalletIdle /\ ConfIdle /\ CacheIdle /\ EpochIdle /\ BridgeIdle /\ ComponentIdle

\* One caller making lookups one after the other, while time passes and the
\* service moves.
NextCache ==
    \/ CurrentHeightBegin
    \/ \E ok \in BOOLEAN : CurrentHeightFetch(ok)
    \/ \E h \in BlockHeights : GetBlockHashBegin(h)
    \/ \E reply \in {"ok", "err", "short"} : GetBlockHashFetch(reply)
    \/ ClockTick
    \/ \E h \in ChainTips : ServiceTip(h)
    \/ \E f \in Forks : ServiceReorg(f)

SpecCache == InitCache /\ [][NextCache]_vars

InitVerify == WalletIdle /\ ConfIdle /\ CacheIdle /\ EpochIdle /\ BridgeIdle /\ ComponentIdle

\* Headers verified one after the other against a service that may change
\* branch, while time passes.
NextVerify ==
    \/ \E header \in Headers, h \in BlockHeights : VerifyBlockBegin(header, h)
    \/ \E reply \in {"ok", "err", "short"} : VerifyBlockFetch(reply)
    \/ ClockTick
    \/ \E f \in Forks : ServiceReorg(f)

SpecVerify == InitVerify /\ [][NextVerify]_vars

----------------------------------------------------------------------------
(* Block epoch notifier *)

\* select { case ch <- v: default: } on a channel of the given capacity
OfferUnbounded(ch, v, size) == Append(ch, v)
OfferNothing(ch, v, size) == ch
Offer(ch, v, size) == IF Len(ch) < size THEN Append(ch, v) ELSE ch

InList(s) == \E i \in DOMAIN subscribers : subscribers[i] = s

\* epochNotifier.RegisterEpoch: fresh channels, appended to the list; the
\* context it is given is wrapped and the wrapper dropped.
RegisterEpoch(s) ==
    /\ ~InList(s)
    /\ sub[s] = NoSubscriber
    /\ delivered[s] = << >>
    /\ ~subCancelled[s]
    /\ subscribers' = Append(subscribers, s)
    /\ UNCHANGED <<sub, subCancelled, delivered, lastHeight, epc, equit, eticks,
                   efetch, bridgeVars, componentVars, confVars, cacheVars, walletVars>>

\* The caller cancels the context it passed to RegisterEpoch.
CancelEpoch(s) ==
    /\ InList(s)
    /\ ~subCancelled[s]
    /\ subCancelled' = [subCancelled EXCEPT ![s] = TRUE]
    /\ UNCHANGED <<subscribers, sub, delivered, lastHeight, epc, equit, eticks,
                   efetch, bridgeVars, componentVars, confVars, cacheVars, walletVars>>

\* The subscriber takes the next height from its blockChan.
ReceiveHeight(s) ==
    /\ sub[s].blockChan # << >>
    /\ sub' = [sub EXCEPT ![s].blockChan = Tail(@)]
    /\ UNCHANGED <<subscribers, subCancelled, delivered, lastHeight, epc, equit,
                   eticks, efetch, bridgeVars, componentVars, confVars, cacheVars, walletVars>>

\* The subscriber takes the error from its errChan.
ReceiveError(s) ==
    /\ sub[s].errChan # << >>
    /\ sub' = [sub EXCEPT ![s].errChan = Tail(@)]
    /\ UNCHANGED <<subscribers, subCancelled, delivered, lastHeight, epc, equit,
                   eticks, efetch, bridgeVars, componentVars, confVars, cacheVars, walletVars>>

\* pollLoop select: case <-ticker.C
EpochTick ==
    /\ epc = "select"
    /\ eticks < MaxEpochTicks
    /\ epc' = "fetch"
    /\ eticks' = eticks + 1
    /\ UNCHANGED <<subscribers, sub, subCancelled, delivered, lastHeight, equit,
                   efetch, bridgeVars, componentVars, confVars, cacheVars, walletVars>>

\* pollLoop select: case <-n.quit
EpochExit ==
    /\ epc = "select"
    /\ equit
    /\ epc' = "exited"
    /\ UNCHANGED <<subscribers, sub, subCancelled, delivered, lastHeight, equit,
                   eticks, efetch, bridgeVars, componentVars, confVars, cacheVars, walletVars>>

\* if height > n.lastHeight
NewHeightAny(h, last) == h # last
NewHeight(h, last) == h > last

\* n.client.GetCurrentHeight returns: on an error it is offered to every
\* subscriber's errChan; a height above lastHeight is offered to every
\* subscriber's blockChan and becomes lastHeight.
EpochFetch(ok) ==
    /\ epc = "fetch"
    /\ epc' = "select"
    /\ efetch' = IF ok THEN [height |-> tip, err |-> FALSE]
                       ELSE [height |-> 0, err |-> TRUE]
    /\ IF ~ok
       THEN /\ sub' = [s \in SubIds |->
                         IF InList(s)
                         THEN [sub[s] EXCEPT
                                 !.errChan = Offer(@, "failed to get height", ErrChanSize)]
                         ELSE sub[s]]
            /\ UNCHANGED <<delivered, lastHeight>>
       ELSE IF NewHeight(tip, lastHeight)
       THEN /\ sub' = [s \in SubIds |->
                         IF InList(s)
                         THEN [sub[s] EXCEPT !.blockChan = Offer(@, tip, BlockChanSize)]
                         ELSE sub[s]]
            /\ delivered' = [s \in SubIds |->
                               IF InList(s) /\ sub'[s].blockChan # sub[s].blockChan
                               THEN Append(delivered[s], tip)
                               ELSE delivered[s]]
            /\ lastHeight' = tip
       ELSE UNCHANGED <<sub, delivered, lastHeight>>
    /\ UNCHANGED <<subscribers, subCancelled, equit, eticks,
                   bridgeVars, componentVars, confVars, cacheVars, walletVars>>

----------------------------------------------------------------------------
(* ChainBridge.Start and ChainBridge.Stop *)

\* What n.wg.Wait() waits for: a goroutine that was started and has not returned.
RunningNever(pc) == FALSE
Running(pc) == pc \notin {"none", "exited"}
Monitors == {r \in ReqIds : ppc[r] # "none"}
Listed == {s \in SubIds : InList(s)}

\* ChainBridge.Start on a bridge that is not started: both notifiers start
\* their pollLoop goroutine.
Start ==
    /\ bpc = "idle"
    /\ ~started
    /\ started' = TRUE
    /\ cloop' = "select"
    /\ epc' = "select"
    /\ UNCHANGED <<bquit, bpc, stops, subscribers, sub, subCancelled, delivered,
                   lastHeight, equit, eticks, efetch, confVars, cacheVars, walletVars, componentVars>>

\* confirmationNotifier.pollLoop: case <-n.quit
ConfLoopExit ==
    /\ cloop = "select"
    /\ quit
    /\ cloop' = "exited"
    /\ UNCHANGED <<started, bquit, bpc, stops, epochVars, confVars, cacheVars,
                   walletVars, componentVars>>

\* ChainBridge.Stop on a started bridge, up to n.wg.Wait() of the confirmation
\* notifier: close(c.quit), then close(n.quit).  Closing c.quit a second time
\* panics.
StopBegin ==
    /\ bpc = "idle"
    /\ started
    /\ IF bquit
       THEN /\ bpc' = "panicked"
            /\ UNCHANGED <<bquit, quit, stops>>
       ELSE /\ bquit' = TRUE
            /\ quit' = TRUE
            /\ bpc' = "confWait"
            /\ stops' = [stops EXCEPT !.found = Monitors, !.subs = Listed]
    /\ UNCHANGED <<cloop, started, epochVars, tip, txStatus, requests, req,
                   cancelled, ppc, poll, cacheVars, walletVars, componentVars>>

\* confirmationNotifier.Stop past n.wg.Wait(): every request left in the
\* registry is cancelled and the registry replaced by an empty one; then
\* epochNotifier.Stop up to its n.wg.Wait(): close(n.quit).
StopConfirmations ==
    /\ bpc = "confWait"
    /\ ~Running(cloop)
    /\ \A r \in ReqIds : ~Running(ppc[r])
    /\ cancelled' = [r \in ReqIds |->
                       cancelled[r] \/ (\E x \in DOMAIN requests : requests[x] = r)]
    /\ requests' = << >>
    /\ equit' = TRUE
    /\ bpc' = "epochWait"
    /\ UNCHANGED <<cloop, started, bquit, stops, subscribers, sub, subCancelled,
                   delivered, lastHeight, epc, eticks, efetch, tip, txStatus, req, quit,
                   ppc, poll, cacheVars, walletVars, componentVars>>

\* epochNotifier.Stop past n.wg.Wait(): the subscriber list is dropped; then
\* c.started = false and Stop returns.
StopEpochs ==
    /\ bpc = "epochWait"
    /\ ~Running(epc)
    /\ subscribers' = << >>
    /\ started' = FALSE
    /\ bpc' = "idle"
    /\ stops' = [stops EXCEPT !.returned = @ + 1]
    /\ UNCHANGED <<cloop, bquit, sub, subCancelled, delivered, lastHeight, epc,
                   equit, eticks, efetch, confVars, cacheVars, walletVars, componentVars>>

InitBridge == WalletIdle /\ ConfIdle /\ CacheIdle /\ EpochIdle /\ BridgeIdle /\ ComponentIdle

\* The bridge through Start and Stop, with one confirmation request, one epoch
\* subscriber and both kinds of poller.
NextBridge ==
    \/ Start
    \/ StopBegin
    \/ StopConfirmations
    \/ StopEpochs
    \/ ConfLoopExit
    \/ RegisterConfirmation(1, "X", 1)
    \/ CancelRequest(1)
    \/ PollTick(1)
    \/ PollExit(1)
    \/ PollGetTransaction(1, TRUE)
    \/ PollGetCurrentHeight(1, TRUE)
    \/ PollDeliver(1)
    \/ PollDeliverAbort(1)
    \/ PollCleanup(1)
    \/ RegisterEpoch(1)
    \/ EpochTick
    \/ EpochExit
    \/ EpochFetch(TRUE)
    \/ ServiceTip(103)
    \/ ServiceTx("X", 98)

SpecBridge == InitBridge /\ [][NextBridge]_vars

InitEpoch == WalletIdle /\ ConfIdle /\ CacheIdle /\ EpochIdle /\ BridgeIdle /\ ComponentIdle

\* A started bridge's epoch poller, two subscribers and a moving tip.
NextEpoch ==
    \/ Start
    \/ \E s \in SubIds : RegisterEpoch(s)
    \/ \E s \in SubIds : CancelEpoch(s)
    \/ \E s \in SubIds : ReceiveHeight(s)
    \/ \E s \in SubIds : ReceiveError(s)
    \/ EpochTick
    \/ \E ok \in BOOLEAN : EpochFetch(ok)
    \/ \E h \in Heights : ServiceTip(h)

SpecEpoch == InitEpoch /\ [][NextEpoch]_vars

----------------------------------------------------------------------------
(* Client.doRequest: rate limiter, HTTP attempt, retry with backoff.  Time   *)
(* passes for the request only where it blocks: in rateLimiter.Wait with an  *)
(* empty bucket and in time.Sleep.                                           *)

Retryable(status) == status \in {0, 429, 500, 502, 503, 504}

\* RetryDelay * (attempt+1), doubled after a 429
Backoff(status, a) ==
    IF status = 429 THEN RetryDelay * (a + 1) * 2 ELSE RetryDelay * (a + 1)

\* return from doRequest
ReturnFrom(err) ==
    /\ rpc' = "returned"
    /\ rerr' = err
    /\ UNCHANGED <<attempt, sleepLeft>>

\* A caller enters doRequest with a context of its own.
DoRequestBegin ==
    /\ rpc = "idle"
    /\ completed < MaxRequests
    /\ rpc' = "wait"
    /\ attempt' = 0
    /\ sent' = 0
    /\ lastStatus' = 0
    /\ ctxDone' = FALSE
    /\ rerr' = "none"
    /\ UNCHANGED <<tokens, cnow, sleepLeft, completed, firstTry,
                   coreVars, signVars, keyVars, feeVars, blockTimestamps>>

\* c.rateLimiter.Wait(ctx): an error when ctx is done, else one token once
\* there is one.
LimiterWait ==
    /\ rpc = "wait"
    /\ IF ctxDone
       THEN /\ ReturnFrom("rate limiter error")
            /\ UNCHANGED tokens
       ELSE /\ tokens > 0
            /\ tokens' = tokens - 1
            /\ rpc' = "do"
            /\ UNCHANGED <<attempt, sleepLeft, rerr>>
    /\ UNCHANGED <<cnow, sent, ctxDone, lastStatus, completed, firstTry,
                   coreVars, signVars, keyVars, feeVars, blockTimestamps>>

\* c.httpClient.Do(req) and what follows it in the loop body.  With ctx done
\* nothing is sent and Do returns the context's error.
HttpDo(resp) ==
    /\ rpc = "do"
    /\ LET status == IF ctxDone THEN 0 ELSE resp
       IN  /\ sent' = IF ctxDone THEN sent ELSE sent + 1
           /\ lastStatus' = status
           /\ IF status >= 200 /\ status < 300
              THEN ReturnFrom("nil")
              ELSE IF Retryable(status)
              THEN IF attempt < RetryAttempts
                   THEN /\ sleepLeft' = Backoff(status, attempt)
                        /\ attempt' = attempt + 1
                        /\ rpc' = "sleep"
                        /\ UNCHANGED rerr
                   ELSE IF status = 0
                   THEN ReturnFrom("HTTP request failed")
                   ELSE ReturnFrom("request failed after attempts")
              ELSE IF status = 404
              THEN ReturnFrom("resource not found (404)")
              ELSE ReturnFrom("unexpected status code")
    /\ UNCHANGED <<tokens, cnow, ctxDone, completed, firstTry,
                   coreVars, signVars, keyVars, feeVars, blockTimestamps>>

\* The caller takes the result.
DoRequestReturn ==
    /\ rpc = "returned"
    /\ rpc' = "idle"
    /\ completed' = completed + 1
    /\ firstTry' = (firstTry /\ rerr = "nil" /\ sent = 1)
    /\ UNCHANGED <<tokens, cnow, attempt, sent, sleepLeft, ctxDone, lastStatus, rerr,
                   coreVars, signVars, keyVars, feeVars, blockTimestamps>>

\* The caller cancels the context of the request in progress.
CancelContext ==
    /\ rpc \in {"wait", "do", "sleep"}
    /\ ~ctxDone
    /\ ctxDone' = TRUE
    /\ UNCHANGED <<tokens, cnow, rpc, attempt, sent, sleepLeft, lastStatus, rerr,
                   completed, firstTry,
                   coreVars, signVars, keyVars, feeVars, blockTimestamps>>

\* One token period passes: the bucket gains a token up to its burst, a
\* time.Sleep in progress comes one period closer to its end and returns
\* when it gets there.  time.Sleep does not look at ctx.
ClientTick ==
    /\ cnow < MaxClientTime
    /\ \/ rpc = "idle"
       \/ rpc = "sleep"
       \/ rpc = "wait" /\ tokens = 0 /\ ~ctxDone
    /\ cnow' = cnow + 1
    /\ tokens' = IF tokens < RateLimit THEN tokens + 1 ELSE tokens
    /\ IF rpc = "sleep"
       THEN /\ sleepLeft' = sleepLeft - 1
            /\ rpc' = IF sleepLeft = 1 THEN "wait" ELSE "sleep"
       ELSE UNCHANGED <<sleepLeft, rpc>>
    /\ UNCHANGED <<attempt, sent, ctxDone, lastStatus, rerr, completed, firstTry,
                   coreVars, signVars, keyVars, feeVars, blockTimestamps>>

InitClient == WalletIdle /\ ConfIdle /\ CacheIdle /\ EpochIdle /\ BridgeIdle /\ ComponentIdle

\* One caller making requests one after the other against a service that
\* answers each attempt as it likes.
NextClient ==
    \/ DoRequestBegin
    \/ LimiterWait
    \/ \E resp \in Responses : HttpDo(resp)
    \/ DoRequestReturn
    \/ CancelContext
    \/ ClientTick

SpecClient == InitClient /\ [][NextClient]_vars

----------------------------------------------------------------------------
(* WalletAnchor.SignPsbt.  An input of the packet is described by what       *)
(* signInput looks at: whether WitnessUtxo is set, what ExtractPkScriptAddrs *)
(* makes of its script ("none": no address) and whether the wallet holds the *)
(* key of that address.  A witness is kept as its number of elements.        *)

PInputs ==
    {[utxo |-> FALSE, script |-> "none", held |-> FALSE]} \cup
    [utxo : {TRUE}, script : {"p2wpkh", "p2tr", "none"}, held : BOOLEAN]

RECURSIVE SeqsUpTo(_, _)
SeqsUpTo(S, n) ==
    IF n = 0 THEN {<<>>}
    ELSE LET shorter == SeqsUpTo(S, n - 1)
         IN  shorter \cup {Append(q, x) : q \in {r \in shorter : Len(r) = n - 1}, x \in S}

\* signInput and signP2WPKH: the error, and the witness attached on success
signInput(in) ==
    IF ~in.utxo THEN [err |-> "missing witness UTXO", witness |-> 0]
    ELSE IF in.script = "none" THEN [err |-> "failed to extract address", witness |-> 0]
    ELSE IF ~in.held THEN [err |-> "don't have private key", witness |-> 0]
    ELSE IF in.script = "p2wpkh" THEN [err |-> "nil", witness |-> 2]
    ELSE [err |-> "unsupported script type", witness |-> 0]

\* Entry of SignPsbt with a packet of unsigned inputs.
SignPsbtBegin(ins, nTxIn, loaded) ==
    /\ spc = "idle"
    /\ packet' = [inputs |-> ins, txIn |-> [i \in 1..nTxIn |-> 0], loaded |-> loaded]
    /\ IF loaded
       THEN /\ spc' = "loop"
            /\ si' = 1
            /\ sret' = "none"
       ELSE /\ spc' = "done"
            /\ si' = 0
            /\ sret' = "ErrWalletNotLoaded"
    /\ UNCHANGED <<coreVars, clientVars, keyVars, feeVars, blockTimestamps>>

\* the loop stopping at the first input signInput fails on: a bug the claims
\* must notice
SignPsbtStepAbort ==
    /\ spc = "loop"
    /\ IF si > Len(packet.inputs)
       THEN /\ spc' = "done"
            /\ sret' = "nil"
            /\ UNCHANGED <<packet, si>>
       ELSE IF si > Len(packet.txIn)
       THEN /\ si' = si + 1
            /\ UNCHANGED <<packet, spc, sret>>
       ELSE LET r == signInput(packet.inputs[si])
            IN  IF r.err = "nil"
                THEN /\ packet' = [packet EXCEPT !.txIn[si] = r.witness]
                     /\ si' = si + 1
                     /\ UNCHANGED <<spc, sret>>
                ELSE /\ spc' = "done"
                     /\ sret' = r.err
                     /\ UNCHANGED <<packet, si>>
    /\ UNCHANGED <<coreVars, clientVars, keyVars, feeVars, blockTimestamps>>

\* One turn of "for i := range packet.Inputs", or its end.
SignPsbtStep ==
    /\ spc = "loop"
    /\ IF si > Len(packet.inputs)
       THEN /\ spc' = "done"
            /\ sret' = "nil"
            /\ UNCHANGED <<packet, si>>
       ELSE IF si > Len(packet.txIn)
       THEN /\ si' = si + 1
            /\ UNCHANGED <<packet, spc, sret>>
       ELSE LET r == signInput(packet.inputs[si])
            IN  /\ packet' = IF r.err = "nil"
                             THEN [packet EXCEPT !.txIn[si] = r.witness]
                             ELSE packet
                /\ si' = si + 1
                /\ UNCHANGED <<spc, sret>>
    /\ UNCHANGED <<coreVars, clientVars, keyVars, feeVars, blockTimestamps>>

\* The caller takes the packet.
SignPsbtReturn ==
    /\ spc = "done"
    /\ spc' = "idle"
    /\ packet' = NoSign
    /\ si' = 0
    /\ sret' = "none"
    /\ UNCHANGED <<coreVars, clientVars, keyVars, feeVars, blockTimestamps>>

InitSign == WalletIdle /\ ConfIdle /\ CacheIdle /\ EpochIdle /\ BridgeIdle /\ ComponentIdle

NextSign ==
    \/ \E ins \in SeqsUpTo(PInputs, MaxInputs), nTxIn \in 0..MaxInputs, loaded \in BOOLEAN :
          SignPsbtBegin(ins, nTxIn, loaded)
    \/ SignPsbtStep
    \/ SignPsbtReturn

SpecSign == InitSign /\ [][NextSign]_vars

----------------------------------------------------------------------------
(* KeyRing.DeriveNextKey over a KeyStateStore.  The method holds kr.mu for   *)
(* its whole body, so concurrent calls run one after the other in some       *)
(* order.  Derivation from the master key succeeds.  SetCurrentIndex of both *)
(* stores (memory, file) sets the store's indexes map before anything that   *)
(* can fail, and DeriveNextKey only logs its error.                          *)

\* DeriveNextKey without the write to the store: a bug the claims must notice
DeriveNextKeyUnsaved(f) ==
    /\ familyIndexes[f] < MaxKeys
    /\ LET index == familyIndexes[f]
       IN  /\ derived' = [derived EXCEPT ![f] = Append(@, [index |-> index, gen |-> krGen])]
           /\ familyIndexes' = [familyIndexes EXCEPT ![f] = index + 1]
           /\ UNCHANGED storeIndexes
    /\ UNCHANGED <<krGen, coreVars, clientVars, signVars, feeVars, blockTimestamps>>

\* DeriveNextKey(ctx, keyFamily): returns the locator (keyFamily, index)
DeriveNextKey(f) ==
    /\ familyIndexes[f] < MaxKeys
    /\ LET index == familyIndexes[f]
       IN  /\ derived' = [derived EXCEPT ![f] = Append(@, [index |-> index, gen |-> krGen])]
           /\ familyIndexes' = [familyIndexes EXCEPT ![f] = index + 1]
           /\ storeIndexes' = [storeIndexes EXCEPT ![f] = index + 1]
    /\ UNCHANGED <<krGen, coreVars, clientVars, signVars, feeVars, blockTimestamps>>

\* keyring.New with the same cfg.KeyStateStore: loadKeyIndexes copies the
\* store's indexes into the new key ring, which replaces the one in use.
NewKeyRing ==
    /\ krGen < MaxKeyRings
    /\ krGen' = krGen + 1
    /\ familyIndexes' = storeIndexes
    /\ UNCHANGED <<storeIndexes, derived, coreVars, clientVars, signVars, feeVars,
                   blockTimestamps>>

InitKeys == WalletIdle /\ ConfIdle /\ CacheIdle /\ EpochIdle /\ BridgeIdle /\ ComponentIdle

NextKeys ==
    \/ \E f \in Families : DeriveNextKey(f)
    \/ NewKeyRing

SpecKeys == InitKeys /\ [][NextKeys]_vars

----------------------------------------------------------------------------
(* ChainBridge.EstimateFee over the service's recommended fees (sat/vB) *)

FeeTables ==
    [fastestFee : {21, 40}, halfHourFee : {11, 21}, hourFee : {5, 11},
     economyFee : {2, 5}, minimumFee : {1, 2}]

ConfTargets == {0, 1, 2, 3, 4, 6, 7, 12, 13, 1000}

\* the buckets with < for <= : a bug the claims must notice
EstimateFeeStrict(f, confTarget) ==
    LET feeRate == IF confTarget < 1 THEN f.fastestFee
                   ELSE IF confTarget < 3 THEN f.halfHourFee
                   ELSE IF confTarget < 6 THEN f.hourFee
                   ELSE IF confTarget < 12 THEN f.economyFee
                   ELSE f.minimumFee
    IN  GoDiv(feeRate * 1000, 4)

\* The switch on confTarget and the conversion to sat/kw.
EstimateFee(f, confTarget) ==
    LET feeRate == IF confTarget <= 1 THEN f.fastestFee
                   ELSE IF confTarget <= 3 THEN f.halfHourFee
                   ELSE IF confTarget <= 6 THEN f.hourFee
                   ELSE IF confTarget <= 12 THEN f.economyFee
                   ELSE f.minimumFee
    IN  GoDiv(feeRate * 1000, 4)

\* EstimateFee(ctx, confTarget): GetFeeEstimates fails or returns the table.
CallEstimateFee(confTarget, ok) ==
    /\ feeDone' =
          IF ok
          THEN [op |-> "EstimateFee", confTarget |-> confTarget,
                rate |-> EstimateFee(fees, confTarget), err |-> "nil", fees |-> fees]
          ELSE [op |-> "EstimateFee", confTarget |-> confTarget,
                rate |-> 0, err |-> "failed to get fee estimates", fees |-> fees]
    /\ UNCHANGED <<fees, coreVars, clientVars, signVars, keyVars, blockTimestamps>>

\* The service recommends other fees.
ServiceFees(f) ==
    /\ f # fees
    /\ fees' = f
    /\ UNCHANGED <<feeDone, coreVars, clientVars, signVars, keyVars, blockTimestamps>>

InitFee == WalletIdle /\ ConfIdle /\ CacheIdle /\ EpochIdle /\ BridgeIdle /\ ComponentIdle

NextFee ==
    \/ \E t \in ConfTargets, ok \in BOOLEAN : CallEstimateFee(t, ok)
    \/ \E f \in FeeTables : ServiceFees(f)

SpecFee == InitFee /\ [][NextFee]_vars

----------------------------------------------------------------------------
(* ChainBridge.GetBlockTimestamp and the block-timestamp cache *)

\* cache.getBlockTimestamp at time t
getBlockTimestamp(m, h, t) ==
    IF h \notin DOMAIN m THEN Miss(0)
    ELSE IF t > m[h].expiresAt THEN Miss(0)
    ELSE Hit(m[h].value)

\* cache.setBlockTimestamp at time t: the maps it can leave behind.  The
\* eviction scan is that of setBlockHash.
setBlockTimestamp(m, h, timestamp, t) ==
    LET m1 == PutEntry(m, h, [value |-> timestamp, expiresAt |-> t + CacheTTL])
    IN  IF Cardinality(DOMAIN m1) > TimestampCacheSize
        THEN {DeleteEntry(m1, k) : k \in Oldest(m1, t)}
        ELSE {m1}

\* The timestamp the service gives for the block at height h.
ServiceTimestamp(h) == 1000 + h

besideCache ==
    <<tip, confRest, walletVars, epochVars, bridgeVars, clientVars, signVars, keyVars,
      feeVars>>

\* GetBlockTimestamp up to the first network call: a cached timestamp is
\* returned; otherwise c.GetBlockHash looks in the hash cache.
GetBlockTimestampBegin(h) ==
    /\ lpc = "idle"
    /\ LET l == Asked("GetBlockTimestamp", h, lastWrite.hash[h])
           r == getBlockTimestamp(blockTimestamps, h, clock)
           rh == getBlockHash(blockHashes, h, clock)
       IN  IF r.ok
           THEN /\ done' = Answered(l, 0, r.value, ErrNil)
                /\ UNCHANGED <<lpc, lookup>>
           ELSE /\ lpc' = IF rh.ok THEN "tsFetchBlock" ELSE "tsFetchHash"
                /\ lookup' = l @@ [hash |-> rh.value]
                /\ done' = NoDone
    /\ UNCHANGED <<clock, fork, height, heightExpiry, blockHashes, lastWrite,
                   blockTimestamps, besideCache>>

\* c.GetBlockHash inside GetBlockTimestamp goes to the service: an error ends
\* the call with 0, a hash is cached and the block is asked for.
TimestampFetchHash(reply) ==
    /\ lpc = "tsFetchHash"
    /\ LET h == lookup.h
           got == Fetched(h, reply)
       IN  IF got.err # ErrNil
           THEN /\ lpc' = "idle"
                /\ lookup' = NoLookup
                /\ done' = Answered(lookup, 1, 0, got.err)
                /\ UNCHANGED <<blockHashes, lastWrite>>
           ELSE /\ lpc' = "tsFetchBlock"
                /\ lookup' = [lookup EXCEPT !.hash = got.hash]
                /\ blockHashes' \in setBlockHash(blockHashes, h, got.hash, clock)
                /\ lastWrite' = [lastWrite EXCEPT
                                   !.hash[h] = [at |-> clock, value |-> got.hash]]
                /\ done' = NoDone
    /\ UNCHANGED <<clock, fork, height, heightExpiry, blockTimestamps, besideCache>>

\* c.cfg.Client.GetBlock(ctx, hash.String()) returns: an error ends the call
\* with 0, a block has its timestamp cached and returned.
TimestampFetchBlock(ok) ==
    /\ lpc = "tsFetchBlock"
    /\ lpc' = "idle"
    /\ lookup' = NoLookup
    /\ LET h == lookup.h
           asked == [block |-> HashString(lookup.hash)]
       IN  IF ok
           THEN /\ blockTimestamps' \in
                      setBlockTimestamp(blockTimestamps, h, ServiceTimestamp(h), clock)
                /\ done' = Answered(lookup, 2, ServiceTimestamp(h), ErrNil) @@ asked
           ELSE /\ done' = Answered(lookup, 2, 0, "failed to get block") @@ asked
                /\ UNCHANGED blockTimestamps
    /\ UNCHANGED <<clock, fork, height, heightExpiry, blockHashes, lastWrite, besideCache>>

InitEvict == WalletIdle /\ ConfIdle /\ CacheIdle /\ EpochIdle /\ BridgeIdle /\ ComponentIdle

\* One caller asking for hashes and timestamps of a few heights while time
\* passes.
NextEvict ==
    \/ \E h \in BlockHeights : GetBlockHashBegin(h)
    \/ \E reply \in {"ok", "err"} : GetBlockHashFetch(reply)
    \/ \E h \in CacheKeys : GetBlockTimestampBegin(h)
    \/ \E reply \in {"ok", "err"} : TimestampFetchHash(reply)
    \/ \E ok \in BOOLEAN : TimestampFetchBlock(ok)
    \/ ClockTick

SpecEvict == InitEvict /\ [][NextEvict]_vars

----------------------------------------------------------------------------
(* Claims about the lease table (checked under SpecLock) *)

Last2 == Len(calls) = 2
IsCall(c, op) == c.op = op
\* The step completes a call of method op.
CallStep(op) == calls' # calls /\ calls'[Len(calls')].op = op
NewCall == calls'[Len(calls')]
Held(o) == o \in DOMAIN locks /\ now < locks[o].expiresAt

\* C2: when an outpoint has no unexpired lease and two LockUTXO calls for it
\* by different callers run one right after the other, the second before the
\* lease installed by the first expires, the first returns nil and the second
\* returns ErrUTXOLocked: exactly one of the two succeeds.
C2_ExactlyOneLockSucceeds ==
    ( /\ Last2
      /\ IsCall(calls[1], "LockUTXO") /\ IsCall(calls[2], "LockUTXO")
      /\ calls[1].o = calls[2].o
      /\ calls[1].by # calls[2].by
      /\ calls[1].free
      /\ calls[2].at < calls[1].at + calls[1].d )
    => ( /\ calls[1].ret = ErrNil
         /\ calls[2].ret = ErrUTXOLocked
         /\ Cardinality({i \in 1..2 : calls[i].ret = ErrNil}) = 1 )

C2_Witness ==
    /\ Last2
    /\ IsCall(calls[1], "LockUTXO") /\ IsCall(calls[2], "LockUTXO")
    /\ calls[1].o = calls[2].o
    /\ calls[1].by # calls[2].by
    /\ calls[1].free
    /\ calls[2].at = calls[1].at
    /\ calls[2].ret = ErrUTXOLocked

\* C7: LockUTXO(o, d) returns ErrUTXOLocked exactly when an entry for o exists
\* whose expiry is still in the future, and then leaves the table (and so the
\* entry's expiry) unchanged; otherwise (no entry, or an entry at or past its
\* expiry) it returns nil and the entry's expiry becomes now + d.
C7_LockUTXOContract ==
    [][ CallStep("LockUTXO") =>
          LET c == NewCall IN
          /\ (c.ret = ErrUTXOLocked) <=> Held(c.o)
          /\ Held(c.o) => /\ c.o \in DOMAIN locks'
                          /\ locks'[c.o].expiresAt = locks[c.o].expiresAt
                          /\ locks' = locks
          /\ ~Held(c.o) => /\ c.ret = ErrNil
                           /\ c.o \in DOMAIN locks'
                           /\ locks'[c.o].expiresAt = now + c.d
                           /\ \A x \in (DOMAIN locks) \ {c.o} :
                                 x \in DOMAIN locks' /\ locks'[x] = locks[x]
      ]_vars

\* a refused call after a granted one, and the granted expiry still in place
C7_Witness ==
    /\ Last2
    /\ IsCall(calls[1], "LockUTXO") /\ calls[1].ret = ErrNil
    /\ IsCall(calls[2], "LockUTXO") /\ calls[2].ret = ErrUTXOLocked
    /\ calls[2].o = calls[1].o
    /\ calls[2].at > calls[1].at
    /\ calls[2].d # calls[1].d
    /\ locks[calls[1].o].expiresAt = calls[1].at + calls[1].d

\* C8: UnlockUTXO(o) returns ErrUTXONotLocked exactly when no entry for o
\* exists; otherwise it returns nil and removes the entry, expired or not, so
\* that IsLocked(o) is false afterwards, and an immediately repeated
\* UnlockUTXO(o) returns ErrUTXONotLocked.
C8_UnlockUTXOContract ==
    /\ [][ CallStep("UnlockUTXO") =>
             LET c == NewCall IN
             /\ (c.ret = ErrUTXONotLocked) <=> (c.o \notin DOMAIN locks)
             /\ (c.o \in DOMAIN locks) =>
                   /\ c.ret = ErrNil
                   /\ c.o \notin DOMAIN locks'
                   /\ \A x \in (DOMAIN locks) \ {c.o} :
                         x \in DOMAIN locks' /\ locks'[x] = locks[x]
         ]_vars
    /\ []( ( /\ Last2
             /\ IsCall(calls[1], "UnlockUTXO")
             /\ calls[2].o = calls[1].o )
           => /\ IsCall(calls[2], "UnlockUTXO") => calls[2].ret = ErrUTXONotLocked
              /\ IsCall(calls[2], "IsLocked") => calls[2].ret = FALSE )

\* an expired entry was released, and the repeated release was refused
C8_Witness ==
    /\ Last2
    /\ IsCall(calls[1], "UnlockUTXO") /\ calls[1].ret = ErrNil /\ calls[1].free
    /\ IsCall(calls[2], "UnlockUTXO") /\ calls[2].ret = ErrUTXONotLocked
    /\ calls[2].o = calls[1].o

\* C9: IsLocked(o) is true exactly while an entry for o exists and its expiry
\* is in the future: after a granted LockUTXO(o, D) at time t, IsLocked(o)
\* reads true before t + D and false from t + D on, with the entry still in
\* the table, and a LockUTXO(o) made from t + D on (or right after IsLocked
\* read false) is granted.
C9_IsLockedExpiry ==
    /\ [][ CallStep("IsLocked") => (NewCall.ret <=> Held(NewCall.o)) ]_vars
    /\ []( ( /\ Last2
             /\ IsCall(calls[1], "LockUTXO") /\ calls[1].ret = ErrNil
             /\ calls[2].o = calls[1].o )
           => /\ IsCall(calls[2], "IsLocked") =>
                   (calls[2].ret <=> calls[2].at < calls[1].at + calls[1].d)
              /\ (IsCall(calls[2], "LockUTXO")
                    /\ calls[2].at >= calls[1].at + calls[1].d) =>
                   calls[2].ret = ErrNil )
    /\ []( ( /\ Last2
             /\ IsCall(calls[1], "IsLocked") /\ calls[1].ret = FALSE
             /\ IsCall(calls[2], "LockUTXO")
             /\ calls[2].o = calls[1].o )
           => calls[2].ret = ErrNil )

\* a lease read as not locked once its duration had elapsed, entry still present
C9_Witness ==
    /\ Last2
    /\ IsCall(calls[1], "LockUTXO") /\ calls[1].ret = ErrNil
    /\ IsCall(calls[2], "IsLocked") /\ calls[2].ret = FALSE
    /\ calls[2].o = calls[1].o
    /\ calls[2].at >= calls[1].at + calls[1].d
    /\ calls[1].o \in DOMAIN locks
    /\ locks[calls[1].o].expiresAt = calls[1].at + calls[1].d

----------------------------------------------------------------------------
(* Claims about FundPsbt *)

SelectedIn(p, o) == \E i \in 1..Len(fund[p].selected) : fund[p].selected[i].op = o

RECURSIVE SumAmounts(_)
SumAmounts(us) == IF us = <<>> THEN 0 ELSE Head(us).amount + SumAmounts(Tail(us))

RemoveAt(s, i) == SubSeq(s, 1, i - 1) \o SubSeq(s, i + 1, Len(s))

Returned(p) == fpc[p] = "done"
Funded(p) == Returned(p) /\ result[p].err = ErrNil
Leftover(r) == SumAmounts(r.inputs) - SumSeq(r.tmplOut) - r.chainFees

\* C1: of two concurrent FundPsbt calls, neither adds to its inputs an
\* outpoint that the other call has selected while an unexpired, unreleased
\* lease on that outpoint is in the table (checked under SpecFundConc).
C1_NoDoubleSelection ==
    [][ \A p \in Callers : \A q \in Callers \ {p} : \A o \in Outpoints :
          ( /\ ~SelectedIn(p, o)
            /\ SelectedIn(p, o)'
            /\ SelectedIn(q, o) )
          => ~Held(o)
      ]_vars

\* The step in which caller p adds outpoint o to its inputs.
Selects(p, o) == ~SelectedIn(p, o) /\ SelectedIn(p, o)'

\* C19: in FundPsbt calls made one after another, every outpoint a call
\* selects gets a lease of LeaseDuration from that moment, and no call
\* selects an outpoint whose lease is in the table unexpired: an outpoint
\* selected by one call is not selected by a later one until its lease has
\* been released or has expired (checked under SpecFund).
C19_LeasedNotReselected ==
    [][ \A o \in Outpoints :
          Selects(1, o) =>
             /\ ~Held(o)
             /\ o \in DOMAIN locks'
             /\ locks'[o].expiresAt = now + LeaseDuration ]_vars

\* a later call has passed over the leased first outpoint of its listing and
\* selected another
C19_Witness ==
    /\ fund[1].selected # <<>>
    /\ Held(fund[1].list[1].op)
    /\ ~SelectedIn(1, fund[1].list[1].op)
    /\ \A i \in 1..Len(fund[1].selected) : Held(fund[1].selected[i].op)

C5_ChangeAboveDustOnly ==
    \A p \in Callers :
        Funded(p) =>
            LET r == result[p] IN
            IF Leftover(r) > 546
            THEN /\ Len(r.txOut) = Len(r.tmplOut) + 1
                 /\ r.changeOutputIndex \in 0..Len(r.tmplOut)
                 /\ r.txOut[r.changeOutputIndex + 1] = Leftover(r)
                 /\ RemoveAt(r.txOut, r.changeOutputIndex + 1) = r.tmplOut
            ELSE /\ r.txOut = r.tmplOut
                 /\ r.changeOutputIndex = -1

\* a funded call whose leftover is exactly the dust limit
C5_Witness ==
    /\ Funded(1)
    /\ Leftover(result[1]) = 546
    /\ result[1].txOut = result[1].tmplOut

----------------------------------------------------------------------------
(* Claims about the confirmation poller (checked under SpecConf) *)

Polling(r) == ppc[r] \in {"select", "getTx", "getHeight"}
Delivering(r) == ppc[r] \in {"deliver", "cleanup"}
Registered(r) == \E x \in DOMAIN requests : requests[x] = r

\* C3: for a request with target C on a transaction the service reports at
\* height H, an event is delivered only on a tick whose tip satisfies
\* currentHeight - H + 1 >= C, whatever tip the service reports; and a poller
\* that went back to waiting has seen no tick on which the inequality held.
C3_EventOnlyAtTargetDepth ==
    \A r \in ReqIds :
        /\ ( /\ req[r].confChan # <<>>
             /\ poll[r].txHeight = poll[r].txBlockHeight )
           => poll[r].currentHeight - poll[r].txHeight + 1 >= req[r].numConfs
        /\ Len(req[r].confChan) <= 1
        /\ Polling(r) =>
              \A i \in 1..Len(poll[r].seen) :
                  poll[r].seen[i] - poll[r].txBlockHeight + 1 < req[r].numConfs

\* The scenario's request: target 6, transaction confirmed at height 98, every
\* tick so far fetched both the transaction and the tip.
Scenario(r, tips) ==
    /\ req[r].numConfs = 6
    /\ poll[r].txBlockHeight = 98
    /\ poll[r].seen = tips
    /\ poll[r].ticks = Len(tips)
    /\ ~Polling(r) \/ ppc[r] = "select"

\* C10 as stated: with tips 100, 103, 104 on ticks 1, 2, 3, nothing is
\* delivered on tick 1 or on tick 2 and the event is delivered on tick 3.
C10_EventOnThirdTick ==
    \A r \in ReqIds :
        /\ Scenario(r, <<100>>) => req[r].confChan = <<>> /\ ~Delivering(r)
        /\ Scenario(r, <<100, 103>>) => req[r].confChan = <<>> /\ ~Delivering(r)
        /\ (Scenario(r, <<100, 103, 104>>) /\ ppc[r] = "exited" /\ ~cancelled[r])
              => req[r].confChan # <<>> /\ ~Registered(r)

\* C10 as amended: tick 1 (tip 100, 100 - 98 + 1 = 3 confirmations) delivers
\* nothing; tick 2 (tip 103, 103 - 98 + 1 = 6 confirmations) delivers the
\* event for height 98, after which the request is out of the registry; the
\* request never sees a third tick.
C10_EventOnSecondTick ==
    \A r \in ReqIds :
        /\ Scenario(r, <<100>>) => req[r].confChan = <<>> /\ ~Delivering(r)
        /\ Scenario(r, <<100, 103>>) =>
              /\ ppc[r] \in {"deliver", "cleanup", "exited"}
              /\ (ppc[r] \in {"cleanup", "exited"} /\ ~cancelled[r] /\ ~quit) =>
                     req[r].confChan = << [BlockHeight |-> U32(98)] >>
              /\ (ppc[r] = "exited" /\ ~cancelled[r] /\ ~quit) => ~Registered(r)
        /\ ~Scenario(r, <<100, 103, 104>>)

\* the event of the scenario delivered on its second tick, request removed
C10_Witness ==
    /\ Scenario(1, <<100, 103>>)
    /\ ppc[1] = "exited"
    /\ ~cancelled[1]
    /\ req[1].confChan = << [BlockHeight |-> U32(98)] >>
    /\ requests = << >>

\* A step in which request r's tick ends with both fetches done.
TickCompletes(r) ==
    /\ ppc[r] = "getHeight"
    /\ poll'[r].seen # poll[r].seen

\* C11: when a tick finds the transaction at a containing height different
\* from the one recorded on an earlier tick, the tick leaves a reorg signal on
\* the request's reorg output (offered, or already there when it was full),
\* records the new height, and counts confirmations from the new height.
C11_ReorgSignalledAndRecorded ==
    [][ \A r \in ReqIds :
          ( /\ TickCompletes(r)
            /\ poll[r].lastBlockHeight > 0
            /\ poll[r].txHeight # poll[r].lastBlockHeight )
          => /\ req'[r].reOrgChan # <<>>
             /\ poll'[r].txBlockHeight = poll[r].txHeight
             /\ (ppc'[r] = "deliver") <=>
                   (tip - poll[r].txHeight + 1 >= req[r].numConfs) ]_vars

\* C12: once the caller's cancellation of a request has fired, no
\* confirmation event is delivered for that request, whatever the poller was
\* doing when the cancellation fired.
C12_NoEventAfterCancel ==
    [][ \A r \in ReqIds :
          cancelled[r] => req'[r].confChan = req[r].confChan ]_vars

----------------------------------------------------------------------------
(* Claims about the bridge's cached lookups (checked under SpecCache) *)

\* C6: a lookup (CurrentHeight, or GetBlockHash of any height) that starts
\* within the TTL of the last write of its key returns the written value
\* without calling the service; a lookup that starts after that TTL has
\* elapsed calls the service exactly once.
C6_CachedWithinTTL ==
    done.op # "none" =>
        /\ done.fresh =>
              /\ done.calls = 0
              /\ done.err = ErrNil
              /\ done.ret = done.cached
        /\ done.stale => done.calls = 1

----------------------------------------------------------------------------
(* Claims about the epoch poller (checked under SpecEpoch) *)

Increasing(q) == \A i \in 1..(Len(q) - 1) : q[i] < q[i + 1]
Last(q) == q[Len(q)]
\* The step in which the epoch poller's fetch returns and is acted on.
FetchStep == epc = "fetch" /\ epc' # "fetch"
Full(s) == Len(sub[s].blockChan) >= BlockChanSize

\* C15: the heights delivered to any one subscriber are strictly increasing,
\* lastHeight never decreases, and a tick whose fetched height is at most
\* lastHeight delivers nothing and leaves lastHeight as it was.
C15_HeightsIncrease ==
    [][ /\ lastHeight' >= lastHeight
        /\ \A s \in SubIds : Increasing(delivered'[s])
        /\ (FetchStep /\ ~efetch'.err /\ efetch'.height <= lastHeight) =>
              /\ lastHeight' = lastHeight
              /\ delivered' = delivered
              /\ \A s \in SubIds : sub'[s].blockChan = sub[s].blockChan ]_vars

\* two heights delivered, then a tick that fetched a lower tip
C15_Witness ==
    /\ \E s \in SubIds : Len(delivered[s]) >= 2
    /\ epc = "select"
    /\ ~efetch.err
    /\ efetch.height < lastHeight

\* C16: on a tick with a new height, a subscriber whose blockChan is full is
\* skipped, every other subscriber receives the height on that tick, the
\* poller is back at its select, and a height once skipped for a subscriber
\* is never delivered to it later (whatever it receives later is higher).
C16_FullSubscriberSkipped ==
    [][ /\ (FetchStep /\ ~efetch'.err /\ efetch'.height > lastHeight) =>
              /\ lastHeight' = efetch'.height
              /\ epc' = "select"
              /\ \A s \in SubIds : InList(s) =>
                    IF Full(s)
                    THEN /\ sub'[s].blockChan = sub[s].blockChan
                         /\ delivered'[s] = delivered[s]
                    ELSE /\ sub'[s].blockChan = Append(sub[s].blockChan, efetch'.height)
                         /\ delivered'[s] = Append(delivered[s], efetch'.height)
        /\ \A s \in SubIds :
              delivered'[s] # delivered[s] => Last(delivered'[s]) > lastHeight ]_vars

\* subscriber 1 full and skipped on the tick that delivered lastHeight to
\* subscriber 2
C16_Witness ==
    /\ InList(1) /\ InList(2)
    /\ epc = "select"
    /\ Len(sub[1].blockChan) = BlockChanSize
    /\ Len(delivered[1]) = BlockChanSize
    /\ Last(delivered[1]) < lastHeight
    /\ delivered[2] # << >>
    /\ Last(delivered[2]) = lastHeight

\* C17: on a tick whose fetch fails, every subscriber's errChan with room
\* receives the error and a full one is left as it is, no height is delivered,
\* lastHeight is unchanged and the poller is back at its select.
C17_FetchErrorOffered ==
    [][ (FetchStep /\ efetch'.err) =>
          /\ epc' = "select"
          /\ lastHeight' = lastHeight
          /\ delivered' = delivered
          /\ \A s \in SubIds :
                /\ sub'[s].blockChan = sub[s].blockChan
                /\ InList(s) =>
                      sub'[s].errChan =
                         IF Len(sub[s].errChan) < ErrChanSize
                         THEN Append(sub[s].errChan, "failed to get height")
                         ELSE sub[s].errChan ]_vars

\* two failed fetches in a row: the second error found the errChan full
C17_Witness ==
    /\ InList(1)
    /\ efetch.err
    /\ eticks >= 2
    /\ lastHeight = 0
    /\ epc = "select"
    /\ sub[1].errChan = << "failed to get height" >>
    /\ delivered[1] = << >>

\* C18: after the context passed to RegisterEpoch has been cancelled, no
\* further height is delivered to that subscription.
C18_NoHeightAfterCancel ==
    [][ \A s \in SubIds :
          subCancelled[s] => delivered'[s] = delivered[s] ]_vars

----------------------------------------------------------------------------
(* Claims about the bridge's shutdown (checked under SpecBridge) *)

\* C13: a confirmation request is in the registry only while its poller is
\* active: once the poller has ended (by delivering, by the caller's
\* cancellation or by shutdown) the registry does not contain the request;
\* for a poller ended by shutdown this is asked from the moment Stop has
\* cleared the registry.
C13_RegisteredOnlyWhileActive ==
    \A r \in ReqIds :
        (ppc[r] = "exited" /\ bpc # "confWait") => ~Registered(r)

\* The step in which ChainBridge.Stop returns on a started bridge.
StopReturns == bpc = "epochWait" /\ bpc' = "idle"
\* Stop has returned and Start has not been called again.
Stopped == stops.returned > 0 /\ ~started /\ bpc = "idle"

----------------------------------------------------------------------------
(* Claims about block verification (checked under SpecVerify) *)

\* The hex string the service reported for the hash VerifyBlock compared with.
Reported(d) == HexEncode(d.ret)

\* C20: VerifyBlock(header, height) returns nil exactly when the hash lookup
\* succeeded and the header's own block hash, written as block hashes are
\* written, is the string the chain service reported for that height; it
\* returns an error in every other case.
C20_VerifyBlockExact ==
    done.op = "VerifyBlock" =>
        ( done.verdict = ErrNil
            <=> (done.err = ErrNil /\ HashString(done.header) = Reported(done)) )

----------------------------------------------------------------------------
(* Claims about the HTTP client (checked under SpecClient) *)

\* C21: a non-retryable status (anything but 2xx, 429, 500, 502, 503, 504)
\* ends the request at once, with exactly one attempt when it answers the
\* first one, and under retryable failures a request never makes more HTTP
\* attempts than the configured attempt count.
C21_AttemptsBounded ==
    /\ sent <= RetryAttempts
    /\ (lastStatus >= 300 /\ ~Retryable(lastStatus)) =>
           (rpc \in {"returned", "idle"} /\ (attempt = 0 => sent = 1))

\* C22: once the context is cancelled the request in progress sends no
\* further attempt and does not go on waiting: no token period passes for it.
C22_CancelStopsRequest ==
    [][ (ctxDone /\ rpc \in {"wait", "do", "sleep"}) =>
            (sent' = sent /\ cnow' = cnow) ]_vars

\* C23: N requests that each succeeded on the first attempt have taken at
\* least (N-1)/RateLimit seconds, that is N-1 token periods.
C23_RateLimited ==
    (firstTry /\ completed >= 1) => cnow >= completed - 1

----------------------------------------------------------------------------
(* Claims about SignPsbt (checked under SpecSign) *)

Signable(in) == in.utxo /\ in.script = "p2wpkh" /\ in.held

----------------------------------------------------------------------------
(* Claims about the key ring (checked under SpecKeys) *)

\* C25: in each family the indexes returned by DeriveNextKey are 0, 1, 2, ...
\* in this order, each once, whatever was derived in other families and also
\* across key rings created over the same store.
C25_IndexesInSequence ==
    \A f \in Families : \A i \in 1..Len(derived[f]) : derived[f][i].index = i - 1

\* A family whose keys were derived by two key rings in turn, while the other
\* family has a different number of keys.
C25_Witness ==
    \E f \in Families, g \in Families :
        /\ Len(derived[f]) >= 3
        /\ derived[f][2].gen = 0
        /\ derived[f][3].gen = 1
        /\ Len(derived[g]) = 1

----------------------------------------------------------------------------
(* Claims about fee estimation (checked under SpecFee) *)

SatPerKW(tier) == (tier * 1000) \div 4
Estimated == feeDone.op = "EstimateFee" /\ feeDone.err = "nil"

\* C26 as stated: every target gets the rate of one of the four tiers fastest,
\* half-hour, hour, economy, by bucket (at most 1, 3, 6, 12), as tier * 1000 / 4.
C26_FourTiers ==
    Estimated =>
        LET t == feeDone.confTarget
            f == feeDone.fees
        IN  IF t <= 1 THEN feeDone.rate = SatPerKW(f.fastestFee)
            ELSE IF t <= 3 THEN feeDone.rate = SatPerKW(f.halfHourFee)
            ELSE IF t <= 6 THEN feeDone.rate = SatPerKW(f.hourFee)
            ELSE IF t <= 12 THEN feeDone.rate = SatPerKW(f.economyFee)
            ELSE feeDone.rate \in {SatPerKW(f.fastestFee), SatPerKW(f.halfHourFee),
                                    SatPerKW(f.hourFee), SatPerKW(f.economyFee)}

\* C26 as amended: the four buckets as stated, and the service's minimum fee,
\* a fifth tier, for every target above 12; always as tier * 1000 / 4.
C26_FiveTiers ==
    Estimated =>
        LET t == feeDone.confTarget
            f == feeDone.fees
        IN  IF t <= 1 THEN feeDone.rate = SatPerKW(f.fastestFee)
            ELSE IF t <= 3 THEN feeDone.rate = SatPerKW(f.halfHourFee)
            ELSE IF t <= 6 THEN feeDone.rate = SatPerKW(f.hourFee)
            ELSE IF t <= 12 THEN feeDone.rate = SatPerKW(f.economyFee)
            ELSE feeDone.rate = SatPerKW(f.minimumFee)

\* EstimateFee(1000), the call MinRelayFee makes, has returned the minimum
\* fee of a table in which no other tier equals it.
C26_Witness ==
    /\ Estimated
    /\ feeDone.confTarget = 1000
    /\ feeDone.fees.minimumFee = 1
    /\ feeDone.rate = 250

----------------------------------------------------------------------------
(* Claims about the cache's capacity (checked under SpecEvict) *)

\* C27: the block-hash map never holds more entries than its capacity, nor
\* does the block-timestamp map, whatever was written and whatever has expired.
C27_MapsWithinCapacity ==
    /\ Cardinality(DOMAIN blockHashes) <= HashCacheSize
    /\ Cardinality(DOMAIN blockTimestamps) <= TimestampCacheSize

\* A write of key h at the current time turns map m into m2: if the write
\* takes the map over cap, m2 lacks exactly one of its keys, one of earliest
\* expiry and not h.
EvictsOldest(m, m2, h, cap) ==
    LET keys == DOMAIN m \cup {h}
        exp(k) == IF k = h THEN clock + CacheTTL ELSE m[k].expiresAt
    IN  Cardinality(keys) > cap =>
            \E k \in keys \ {h} :
                /\ DOMAIN m2 = keys \ {k}
                /\ \A j \in keys : exp(k) <= exp(j)

HashWrite ==
    \/ lpc = "fetchHash" /\ done'.err = ErrNil
    \/ lpc = "tsFetchHash" /\ lpc' = "tsFetchBlock"
TimestampWrite == lpc = "tsFetchBlock" /\ done'.err = ErrNil

\* C28: a write that takes a map over its capacity removes exactly one entry,
\* of earliest expiry among those present, and never the entry just written.
C28_EvictsEarliestExpiry ==
    [][ /\ HashWrite =>
             EvictsOldest(blockHashes, blockHashes', lookup.h, HashCacheSize)
        /\ TimestampWrite =>
             EvictsOldest(blockTimestamps, blockTimestamps', lookup.h, TimestampCacheSize)
      ]_vars

----------------------------------------------------------------------------
(* Claims about FundPsbt's selection and change position (checked under     *)
(* SpecFund)                                                                *)

\* The positions of its listing a call has been through.
Visited(p) ==
    IF fpc[p] \in {"check", "lock"}
    THEN 1..(fund[p].i - 1)
    ELSE {j \in 1..Len(fund[p].list) : j <= fund[p].i}

\* C29: what a call has selected is, in listing order, every output of its
\* listing it has been through that was not leased when it came to it; and
\* it takes an output only while the running total is below the required
\* amount, so none at all when the requirement is met by zero.
C29_ShortestUnleasedPrefix ==
    \A p \in Callers :
        fpc[p] \in {"check", "lock", "finish", "done"} =>
            LET f == fund[p]
                taken == Visited(p) \ f.skipped
            IN  /\ Len(f.selected) = Cardinality(taken)
                /\ \A j \in taken :
                       f.selected[Cardinality({x \in taken : x <= j})] = f.list[j]
                /\ fpc[p] = "lock" => f.totalInput < f.required

\* C30: a change output asked for at a position p with 0 <= p <= number of
\* template outputs sits at index p, with the template's outputs around it
\* in their order, and ChangeOutputIndex is p; for any other p it is the last
\* output and ChangeOutputIndex is its index; without a change output
\* ChangeOutputIndex is -1.
C30_ChangePosition ==
    [][ \A c \in ChangeIdxs :
          (FundFinish(1, c) /\ result'[1].err = ErrNil) =>
              LET r == result'[1]
                  n == Len(r.tmplOut)
              IN  IF Len(r.txOut) = n + 1
                  THEN IF c >= 0 /\ c <= n
                       THEN /\ r.changeOutputIndex = c
                            /\ r.txOut[c + 1] = Leftover(r)
                            /\ RemoveAt(r.txOut, c + 1) = r.tmplOut
                       ELSE /\ r.changeOutputIndex = n
                            /\ r.txOut[n + 1] = Leftover(r)
                            /\ SubSeq(r.txOut, 1, n) = r.tmplOut
                  ELSE /\ r.txOut = r.tmplOut
                       /\ r.changeOutputIndex = -1 ]_vars

\* a funded call with a two-output template whose change output was put
\* between the two
C30_Witness ==
    /\ Funded(1)
    /\ Len(result[1].tmplOut) = 2
    /\ Len(result[1].txOut) = 3
    /\ result[1].changeOutputIndex = 1
    /\ result[1].txOut[2] = Leftover(result[1])
    /\ result[1].txOut[2] > 546

----------------------------------------------------------------------------
(* Claims about leases and failed funding (checked under SpecFund)          *)

\* The step in which FundPsbt returns ErrInsufficientFunds to caller p.
FailsFunding(p) ==
    /\ fpc[p] = "finish"
    /\ fpc'[p] = "done"
    /\ result'[p].err = ErrInsufficientFunds

\* C31: a FundPsbt call that fails after leasing outputs releases none of
\* them: the failing return leaves the lease table as it is, an unexpired
\* lease ends only by UnlockInput on its outpoint or by the passing of time,
\* and a funding call made in the meantime does not select a leased outpoint.
C31_FailedFundingKeepsLeases ==
    [][ /\ FailsFunding(1) => locks' = locks
        /\ \A o \in Outpoints :
              /\ (Held(o) /\ ~Held(o)') =>
                     \/ now' > now
                     \/ locks' = UnlockUTXO(locks, o, now).locks
              /\ Selects(1, o) => ~Held(o) ]_vars

\* a call has failed for insufficient funds with two outputs selected, both
\* still leased
C31_Witness ==
    /\ Returned(1)
    /\ result[1].err = ErrInsufficientFunds
    /\ Len(fund[1].selected) = 2
    /\ \A i \in 1..Len(fund[1].selected) : Held(fund[1].selected[i].op)

----------------------------------------------------------------------------
(* The epoch poller beside the bridge's block-hash lookups, while the chain *)
(* service moves from one branch to the other.                              *)

InitReorg == InitCache

NextReorg ==
    \/ Start
    \/ EpochTick
    \/ \E ok \in BOOLEAN : EpochFetch(ok)
    \/ \E h \in BlockHeights : GetBlockHashBegin(h)
    \/ \E reply \in {"ok", "err"} : GetBlockHashFetch(reply)
    \/ ClockTick
    \/ \E f \in Forks : ServiceReorg(f)

SpecReorg == InitReorg /\ [][NextReorg]_vars

(* Claims about reorganisations and the cache (checked under SpecReorg) *)

\* GetBlockHash(h) would be answered from the cache with a hash that is not
\* the one the chain service has at height h.
CachedReplaced(h) ==
    LET r == getBlockHash(blockHashes, h, clock)
    IN  r.ok /\ r.value # Fetched(h, "ok").hash

\* A poll of the chain service has come back.
PollSucceeds == epc = "fetch" /\ epc' = "select" /\ ~efetch'.err

----------------------------------------------------------------------------
(* Claims about failed fetches of a confirmation poller (checked under      *)
(* SpecConf)                                                                *)

\* A network call of request r's tick comes back with an error, the caller
\* not having cancelled.
FailedFetch(r) ==
    /\ ~cancelled[r]
    /\ PollGetTransaction(r, FALSE) \/ PollGetCurrentHeight(r, FALSE)

\* C33: a failed fetch on a tick does not end the confirmation poller: the
\* poller goes back to its select, the request stays registered, and the
\* error is offered on the request's error output (which then holds an
\* error, its capacity being one).
C33_FailedFetchSignalled ==
    [][ \A r \in ReqIds :
          FailedFetch(r) =>
              /\ ppc'[r] = "select"
              /\ req'[r].txid \in DOMAIN requests' /\ requests'[req'[r].txid] = r
              /\ req'[r].errChan # <<>> ]_vars

----------------------------------------------------------------------------
(* A caller that asks the bridge for a fee rate and funds a packet at the   *)
(* rate it was given.                                                       *)

InitFeeFund == InitFund

NextFeeFund ==
    \/ \E t \in {1, 6, 1000}, ok \in BOOLEAN : CallEstimateFee(t, ok)
    \/ \E f \in {g \in FeeTables : g.hourFee = 5 /\ g.economyFee = 2 /\ g.halfHourFee = 11} :
          ServiceFees(f)
    \/ \E outs \in {<<1000>>, <<3150>>}, nIn \in TemplateInputs :
          /\ feeDone.op = "EstimateFee" /\ feeDone.err = "nil"
          /\ FundBegin(1, outs, nIn, 1, feeDone.rate)
    \/ FundCheck(1)
    \/ FundSelect(1)
    \/ FundFinish(1, -1)
    \/ FundReturn(1)

SpecFeeFund == InitFeeFund /\ [][NextFeeFund]_vars

(* Claims about the fee FundPsbt estimates (checked under SpecFeeFund) *)

\* estimatedVSize of a call's packet
VSize(f) == f.nIn * InputSize + Len(f.outs) * OutputSize + TxOverhead

\* C34: funding at the sat/kw rate that EstimateFee derived from a tier of t
\* sat/vB reserves t sat for each estimated vbyte, up to integer rounding: the
\* estimated fee is at most VSize * t and more than VSize * (t - 1).
C34_FeeIsRatePerVByte ==
    [][ (Estimated /\ fpc[1] = "idle" /\ fpc'[1] # "idle") =>
            \E t \in {feeDone.fees[k] : k \in DOMAIN feeDone.fees} :
                /\ feeDone.rate = SatPerKW(t)
                /\ fund'[1].fee <= VSize(fund'[1]) * t
                /\ fund'[1].fee > VSize(fund'[1]) * (t - 1) ]_vars

----------------------------------------------------------------------------
(* Two confirmation requests for the same transaction id, each with its     *)
(* poller.                                                                  *)

InitConfTwo == InitConf

NextConfTwo ==
    \/ \E r \in ReqIds : RegisterConfirmation(r, "X", 1)
    \/ \E r \in ReqIds : PollTick(r)
    \/ \E r \in ReqIds, ok \in BOOLEAN : PollGetTransaction(r, ok)
    \/ \E r \in ReqIds, ok \in BOOLEAN : PollGetCurrentHeight(r, ok)
    \/ \E r \in ReqIds : PollDeliver(r)
    \/ \E r \in ReqIds : PollCleanup(r)
    \/ \E h \in {100, 103} : ServiceTip(h)
    \/ ServiceTx("X", 98)

SpecConfTwo == InitConfTwo /\ [][NextConfTwo]_vars

(* Claims about the registry of confirmation requests (checked under        *)
(* SpecConfTwo)                                                             *)

\* C35: whenever a confirmation poller is running, the registry's entry for
\* its transaction id is that poller's own request, also when the same
\* transaction id has been registered more than once.
C35_RegistryEntryIsOwn ==
    \A r \in ReqIds :
        (Polling(r) \/ Delivering(r)) =>
            /\ req[r].txid \in DOMAIN requests
            /\ requests[req[r].txid] = r

----------------------------------------------------------------------------
(* Claims about the hash string sent for a block (checked under SpecEvict)  *)

\* C36: for every height, the block-hash string the bridge sends to the
\* block-by-hash endpoint is the string the hash-at-height endpoint returned
\* for that height.
C36_HashStringRoundTrip ==
    (done.op = "GetBlockTimestamp" /\ done.calls = 2) =>
        done.block = ServiceHash(done.h, fork)

----------------------------------------------------------------------------
(* Claims about sequences of Start and Stop (checked under SpecBridge) *)

\* C37: every sequence of Start and Stop calls on the bridge completes
\* without a panic: no call closes a quit channel that is already closed.
\* (Stop on a bridge that is not started and Start on a started one return
\* nil at their first test and change nothing.)
C37_StartStopNeverPanics == bpc # "panicked"

----------------------------------------------------------------------------
(* Claims about releases and later leases (checked under SpecLock) *)

\* C38: a lease is removed only by a release meant for it or by expiry: when
\* a caller has taken a lease on an outpoint that was free (never leased, or
\* its earlier lease expired) and another caller then releases the outpoint
\* before that lease expires, the lease is still held.
C38_ReleaseKeepsLaterLease ==
    ( /\ Last2
      /\ IsCall(calls[1], "LockUTXO") /\ calls[1].ret = ErrNil
      /\ calls[1].free
      /\ IsCall(calls[2], "UnlockUTXO")
      /\ calls[2].o = calls[1].o
      /\ calls[2].by # calls[1].by
      /\ now < calls[1].at + calls[1].d )
        => Held(calls[1].o)

----------------------------------------------------------------------------
(* The bridge under fair scheduling: a goroutine that can take a step takes *)
(* it, a network call in flight returns, and a select whose quit case is    *)
(* ready again and again takes it in the end (Go chooses among the ready    *)
(* cases at random).  Nothing obliges a caller to call, the tickers to fire *)
(* or the service to move.                                                  *)

FairBridge ==
    /\ WF_vars(StopConfirmations)
    /\ WF_vars(StopEpochs)
    /\ WF_vars(ConfLoopExit)
    /\ SF_vars(EpochExit)
    /\ SF_vars(PollExit(1))
    /\ SF_vars(PollDeliverAbort(1) \/ PollDeliver(1))
    /\ WF_vars(PollGetTransaction(1, TRUE))
    /\ WF_vars(PollGetCurrentHeight(1, TRUE))
    /\ WF_vars(PollCleanup(1))
    /\ WF_vars(EpochFetch(TRUE))

\* The bridge through Start and Stop with one confirmation request followed
\* for two ticks, one epoch subscriber that reads nothing and an epoch poller
\* followed for one tick.
NextStop ==
    \/ Start
    \/ StopBegin
    \/ StopConfirmations
    \/ StopEpochs
    \/ ConfLoopExit
    \/ RegisterConfirmation(1, "X", 1)
    \/ CancelRequest(1)
    \/ poll[1].ticks < 2 /\ PollTick(1)
    \/ PollExit(1)
    \/ PollGetTransaction(1, TRUE)
    \/ PollGetCurrentHeight(1, TRUE)
    \/ PollDeliver(1)
    \/ PollDeliverAbort(1)
    \/ PollCleanup(1)
    \/ RegisterEpoch(1)
    \/ eticks < 1 /\ EpochTick
    \/ EpochExit
    \/ EpochFetch(TRUE)
    \/ ServiceTip(103)
    \/ ServiceTx("X", 98)

SpecBridgeFair == InitBridge /\ [][NextStop]_vars /\ FairBridge

(* Claims about the termination of Stop (checked under SpecBridgeFair) *)

\* Stop returns with both pollLoops and every confirmation poller it found
\* exited.
StopHasReturned ==
    /\ bpc = "idle"
    /\ ~Running(cloop)
    /\ ~Running(epc)
    /\ \A r \in stops.found : ~Running(ppc[r])

\* C39: once Stop has begun the shutdown (the quit channels are closed), the
\* pollers exit and Stop returns, whatever the pollers were doing and
\* whatever is or is not read from the subscribers' outputs; and with the
\* confirmation notifier's quit channel closed no confirmation poller, also
\* one registered since, stays running for ever.
C39_StopTerminates ==
    /\ (bpc = "confWait") ~> StopHasReturned
    /\ quit ~> (\A r \in ReqIds : ~Running(ppc[r]))

\* Stop is past the confirmation notifier, whose one poller had taken ticks
\* and has exited without delivering
C39_Witness ==
    /\ bpc = "epochWait"
    /\ stops.found = {1}
    /\ ppc[1] = "exited"
    /\ poll[1].ticks > 0
    /\ req[1].confChan = << >>

----------------------------------------------------------------------------
(* Claims about the fee and the size of the funded transaction (checked     *)
(* under SpecFund)                                                          *)

\* C40: the fee a funded call reserves is at least the fee its own size model
\* gives, at the call's fee rate, for the transaction it returns: the
\* template's inputs and the inputs it added, the template's outputs and the
\* change output it added.
C40_FeeCoversReturnedTx ==
    \A p \in Callers :
        Funded(p) =>
            result[p].chainFees >=
                EstimatedFee(result[p].nIn + Len(result[p].inputs),
                             Len(result[p].txOut), fund[p].feeRate)

====
